---------------------------- MODULE Spec2Model ----------------------------
(***************************************************************************)
(* Administrative scripts of the zenodo-rdm IIIF tooling.                  *)
(*                                                                         *)
(* Every script is a single-threaded, one-shot program.  A behaviour of    *)
(* this module is one run of one script: Init picks the script, the        *)
(* actions are the steps of its loops.  The record a loop iteration works  *)
(* on (the local variable `record` of the scripts) is drawn when the       *)
(* script loads it; the outcomes of external programs (vips, docker, the   *)
(* HTTP server, the ORM) are drawn when the script calls them.             *)
(*                                                                         *)
(* File names are sequences of tokens, e.g. <<"doc", ".pdf", ".ptif">>     *)
(* stands for "doc.pdf.ptif": str.endswith, str.lower, f"{name}.ptif" and  *)
(* name[:-5] are computed on the tokens.                                   *)
(***************************************************************************)
EXTENDS Integers, Sequences, FiniteSets, TLC

(* ------------------------------- bounds ------------------------------- *)

\* Largest number of records RDMRecord.model_cls.query.all() returns, and
\* largest number of record ids given on a command line.
MaxRecords == 2

\* Largest number of page-<n>.ptif files on disk / pages pdfinfo reports.
MaxPages == 2

(* ------------------------------ file names ---------------------------- *)

PTIF == ".ptif"

PdfDoc == <<"doc", ".pdf">>
PdfScan == <<"SCAN", ".PDF">>
ImgJpg == <<"img", ".jpg">>
TxtNotes == <<"notes", ".txt">>
PlateTif == <<"PLATE", ".TIF">>

\* str.lower() on a token
LowerToken(t) ==
    CASE t = ".PDF" -> ".pdf"
      [] t = "SCAN" -> "scan"
      [] t = ".TIF" -> ".tif"
      [] t = "PLATE" -> "plate"
      [] OTHER -> t

\* name.lower()
Lower(name) == [i \in 1..Len(name) |-> LowerToken(name[i])]

\* name.endswith(ext)
EndsWith(name, ext) == Len(name) > 0 /\ name[Len(name)] = ext

\* f"{name}.ptif"
PtifKey(name) == Append(name, PTIF)

\* file_key[:-5] of a key that ends with ".ptif"
StripPtif(key) == SubSeq(key, 1, Len(key) - 1)

\* f"{name}.page-{n}.ptif"
PagePtifKey(name, n) == name \o <<".page-" \o ToString(n), PTIF>>

\* filename.lower().endswith('.pdf')
IsPdf(name) == EndsWith(Lower(name), ".pdf")

\* [f for f in keys if f.lower().endswith('.pdf')]
PdfFiles(fs) == SelectSeq(fs, IsPdf)

\* os.path.splitext(file_key)[1].lower()[1:] in valid_extensions, with the
\* default list of IIIF_TILES_VALID_EXTENSIONS
ValidExtensions == {".jp2", ".jpeg", ".jpg", ".pdf", ".png", ".tif", ".tiff"}
HasValidExtension(name) ==
    Len(name) > 1 /\ LowerToken(name[Len(name)]) \in ValidExtensions

\* key.lower().endswith(('.jpg', '.jpeg', '.png', '.tif', '.tiff'))
ImageExtensions == {".jpg", ".jpeg", ".png", ".tif", ".tiff"}
IsImage(name) == Len(name) > 0 /\ LowerToken(name[Len(name)]) \in ImageExtensions

SeqSet(s) == {s[i] : i \in 1..Len(s)}

(* ----------------------------- identifiers ---------------------------- *)

\* A record identifier is a string that the scripts slice: the sequence of
\* its characters. RECORD_DEFAULT = "216"
RecordDefault == <<"2", "1", "6">>

\* the identifiers met: --record-id values and str(record_model.id)
RecordIds == {RecordDefault, <<"1", "0", "5">>, <<"a", "b", "1", "2", "c">>}

\* a record whose identifier no script has read
NoId == << >>

\* "".join(chars)
RECURSIVE Str(_)
Str(chars) == IF chars = << >> THEN "" ELSE Head(chars) \o Str(Tail(chars))

\* s[lo:hi] of Python, lo and hi counted from 0
Slice(s, lo, hi) ==
    LET m == IF hi < Len(s) THEN hi ELSE Len(s)
    IN  IF lo >= m THEN << >> ELSE SubSeq(s, lo + 1, m)

(* ------------------------------- records ------------------------------ *)

\* processor status strings; "unknown" is what processor.get("status",
\* "unknown") gives for a media file without a status
Status == {"init", "processing", "finished", "failed", "unknown"}

\* record.files.keys() of the records the scripts meet
FileLists == {<< >>, <<PdfDoc>>, <<TxtNotes, PdfScan>>, <<ImgJpg, PdfDoc>>}

\* keys record.media_files may hold beside the ones the scripts add; the
\* sequence fixes the order of record.media_files.keys()
OrphanPtif == <<"old", ".tif", ".ptif">>
CoverPng == <<"cover", ".png">>
MediaKeyOrder == <<PtifKey(PdfDoc), PtifKey(PdfScan), PtifKey(ImgJpg), OrphanPtif, CoverPng>>

NoMedia == [k \in {} |-> "unknown"]

\* media_files of a record: key -> processor status
MediaMaps ==
    { m1 @@ m2 :
        m1 \in {NoMedia} \cup { (PtifKey(PdfDoc) :> s) : s \in Status },
        m2 \in {NoMedia} \cup { (OrphanPtif :> s) : s \in {"init", "failed"} } }
    \cup { (CoverPng :> "init") @@ m :
             m \in {NoMedia} \cup { (PtifKey(PdfDoc) :> s) : s \in {"init", "failed"} } }
    \cup { (PtifKey(PdfScan) :> s) : s \in {"init", "finished"} }
    \cup { (PtifKey(ImgJpg) :> s) @@ (PtifKey(PdfDoc) :> "finished") : s \in {"failed", "processing"} }

\* A record as the scripts see it: media_files.enabled, files.keys(),
\* media_files (key -> status), and the source files whose metadata holds
\* 'width'.
RecordShapes ==
    { [enabled |-> TRUE, files |-> fs, media |-> m, width |-> w, id |-> NoId] :
        fs \in FileLists, m \in MediaMaps, w \in {{}, {PdfDoc}} }
    \cup
    { [enabled |-> FALSE, files |-> fs, media |-> m, width |-> {}, id |-> NoId] :
        fs \in FileLists,
        m \in { NoMedia, (PtifKey(PdfDoc) :> "init"), (PtifKey(PdfDoc) :> "failed") } }

\* the records of scripts that read record.files and media_files membership only
FileShapes ==
    { [enabled |-> e, files |-> fs, media |-> m, width |-> {}, id |-> NoId] :
        e \in BOOLEAN, fs \in FileLists,
        m \in {NoMedia} \cup { (PtifKey(PdfDoc) :> s) : s \in {"init", "finished"} }
                        \cup { (PtifKey(PdfScan) :> "finished") } }

NoRecord == [enabled |-> FALSE, files |-> << >>, media |-> NoMedia, width |-> {}, id |-> NoId]

\* list(record.media_files.keys())
MediaKeys(r) == SelectSeq(MediaKeyOrder, LAMBDA k : k \in DOMAIN r.media)

\* the .ptif keys of a record's media files
PtifKeys(r) == {k \in DOMAIN r.media : EndsWith(k, PTIF)}

(* ------------------------------- state -------------------------------- *)

Scripts ==
    { "fix_ptif_status", "check_media_files", "generate_missing_tiles",
      "fix_process_iiif_tiles", "create_simple_ptif", "regenerate_pdf_ptif",
      "create_pdf_ptif_manual", "create_pdf_multipage_ptif", "register_pdf_ptif",
      "batch_convert", "convert_existing_records", "modify_manifest", "serve_viewer",
      "register_ptif", "check_pdf_ptif_files", "update_previewers",
      "tests/iiif/test_browser_ui", "site/tests/iiif/test_browser_ui",
      "test_simple_iipserver", "test_core_services", "test_authenticated_manifest" }

\* counters the scripts print in their summaries
Counters ==
    { "records_with_media_files", "records_with_ptif", "ptif_files_fixed",
      "files_processed", "tiles_generated", "files_converted",
      "processed_records", "successful_records", "failed_records",
      "pdf_records", "ptif_files_regenerated", "ptif_files_created", "errors",
      "multi_page_pdfs", "total_pdf_pages", "records_processed",
      "ptif_files_registered", "success_count", "failed_count", "success", "failure",
      "pdf_with_ptif", "ptif_init_status", "ptif_processing_status",
      "ptif_finished_status", "pdf_without_ptif" }

VARIABLES
    script,     \* the script this behaviour runs
    pc,         \* position in the script
    nrec,       \* len(records) / len(record_ids)
    ri,         \* number of records the record loop has taken
    record,     \* the record loaded by the current iteration
    fi,         \* number of files the file loop has taken
    has_ptif,   \* fix_ptif_status: local flag of the record iteration
    record_success, \* fix_process_iiif_tiles: local flag of the record iteration
    log,        \* external calls made for the current file (page), in order
    tally,      \* the statistics counters
    raised,     \* exceptions raised so far
    caught,     \* exceptions caught and printed so far
    exitCode,   \* process exit code, -1 while running
    page_count, \* pages of the current PDF / page loop counter of register_pdf_ptif
    page_num,   \* create_pdf_multipage_ptif: page the page loop works on
    diskPages,  \* the n for which <pdf>.page-<n>.ptif is a file on disk
    page_files, \* create_pdf_multipage_ptif: "page_files" of the manifest written
    image_files, \* batch_convert: the image files of the record
    disk,       \* modify_manifest: the .ptif directory listing of each prefix;
                \* batch_convert: the files copied into the IIPServer
    canvases,   \* modify_manifest: the canvases of the manifest
    PREVIEWER_PREFERENCE, \* app.config['PREVIEWER_PREFERENCE']
    AUTH_TOKEN  \* test_authenticated_manifest: the token of the environment

pdfVars == <<page_count, page_num, diskPages, page_files>>

webVars == <<image_files, disk, canvases, PREVIEWER_PREFERENCE, AUTH_TOKEN>>

vars == <<script, pc, nrec, ri, record, fi, has_ptif, record_success, log, tally,
          raised, caught, exitCode, pdfVars, webVars>>

Inc(c) == [tally EXCEPT ![c] = @ + 1]

\* an external call: what was called, on which key, whether it succeeded,
\* and the processor status the key had before the call ("" when no status
\* is involved)
EvP(op, arg, ok, prior) == [op |-> op, arg |-> arg, ok |-> ok, prior |-> prior]
Ev(op, arg, ok) == EvP(op, arg, ok, "")

(* number of records of a run: the scripts with a hard-coded record_ids
   list have its length, the others what the query returns *)
CheckMediaRecordIds == 2
CreateSimpleRecordIds == 2
RegisterPdfRecordIds == 1
ModifyManifestRecordIds == 1
\* batch_convert reads one record id, sys.argv[1]
BatchConvertArgs == 1

\* modify_manifest: no directory has been listed
NoDisk == [p \in {} |-> << >>]

\* AUTH_TOKEN = os.environ.get("AUTH_TOKEN", "")
AuthTokens == {"", "token"}

RecordCounts(s) ==
    CASE s = "check_media_files" -> {CheckMediaRecordIds}
      [] s = "create_simple_ptif" -> {CreateSimpleRecordIds}
      [] s = "register_pdf_ptif" -> {RegisterPdfRecordIds}
      [] s = "modify_manifest" -> {ModifyManifestRecordIds}
      [] s = "batch_convert" -> 0..BatchConvertArgs
      [] s = "serve_viewer" -> {0}
      [] s \in {"register_ptif", "update_previewers", "tests/iiif/test_browser_ui",
                 "site/tests/iiif/test_browser_ui", "test_simple_iipserver",
                 "test_core_services", "test_authenticated_manifest"} -> {0}
      [] OTHER -> 0..MaxRecords

\* The body of the record loop is left: its locals are dead until the next
\* iteration binds them again.
EndIteration ==
    /\ pc' = "loop"
    /\ record' = NoRecord
    /\ fi' = 0
    /\ has_ptif' = FALSE
    /\ log' = << >>

Init ==
    /\ script \in Scripts
    /\ pc = "start"
    /\ nrec \in RecordCounts(script)
    /\ ri = 0
    /\ record = NoRecord
    /\ fi = 0
    /\ has_ptif = FALSE
    /\ record_success = FALSE
    /\ log = << >>
    /\ tally = [c \in Counters |-> 0]
    /\ raised = 0
    /\ caught = 0
    /\ exitCode = -1
    /\ page_count = 0
    /\ page_num = 0
    /\ diskPages = {}
    /\ page_files = << >>
    /\ image_files = << >>
    /\ disk = NoDisk
    /\ canvases = << >>
    /\ PREVIEWER_PREFERENCE = << >>
    /\ AUTH_TOKEN \in IF script = "test_authenticated_manifest" THEN AuthTokens ELSE {""}

(* --------------------------- fix_ptif_status --------------------------- *)

\* a loop body without handler: the exception ends the script
FixNoExcept ==
    /\ UNCHANGED caught
    /\ pc' = "aborted"

\* except Exception as e: print(...); traceback.print_exc(): the loop goes on
FixExcept ==
    /\ caught' = caught + 1
    /\ pc' = "loop"

\* for record_model in records: try: record = RDMRecord.get_record(...);
\* the two media_files checks; an exception is caught by the handler of the
\* loop body
FixLoad ==
    /\ script = "fix_ptif_status"
    /\ pc \in {"start", "loop"}
    /\ ri < nrec
    /\ ri' = ri + 1
    /\ fi' = 0
    /\ has_ptif' = FALSE
    /\ log' = << >>
    /\ \/ /\ record' = NoRecord
          /\ raised' = raised + 1
          /\ FixExcept
          /\ UNCHANGED tally
       \/ \E r \in RecordShapes :
            /\ UNCHANGED <<raised, caught>>
            /\ IF r.enabled
                 THEN /\ record' = r
                      /\ tally' = Inc("records_with_media_files")
                      /\ pc' = "files"
                 ELSE /\ record' = NoRecord
                      /\ UNCHANGED tally
                      /\ pc' = "loop"
    /\ UNCHANGED <<pdfVars, webVars, script, nrec, record_success, exitCode>>

\* a status test that takes every unfinished file
FixNeededUnfinished(status) == status # "finished"

\* the status test of the loop over record.media_files.keys()
FixNeeded(status) == status = "init"

\* one iteration of: for file_key in record.media_files.keys()
FixFile ==
    /\ script = "fix_ptif_status"
    /\ pc = "files"
    /\ fi < Len(MediaKeys(record))
    /\ fi' = fi + 1
    /\ LET file_key == MediaKeys(record)[fi + 1]
           original_key == StripPtif(file_key)
       IN  IF EndsWith(file_key, PTIF)
             THEN /\ has_ptif' = TRUE
                  /\ IF FixNeeded(record.media[file_key])
                       THEN /\ record' =
                                 [record EXCEPT
                                    !.media[file_key] = "finished",
                                    !.width = IF original_key \in SeqSet(record.files)
                                                THEN @ \cup {original_key}
                                                ELSE @]
                            /\ tally' = Inc("ptif_files_fixed")
                            /\ log' = Append(log, Ev("file_record.commit", file_key, TRUE))
                       ELSE UNCHANGED <<record, tally, log>>
             ELSE UNCHANGED <<has_ptif, record, tally, log>>
    /\ UNCHANGED <<pdfVars, webVars, script, pc, nrec, ri, record_success, raised, caught, exitCode>>

\* if has_ptif: uow.register(RecordCommitOp(record)); uow.commit()
FixCommit ==
    /\ script = "fix_ptif_status"
    /\ pc = "files"
    /\ fi = Len(MediaKeys(record))
    /\ tally' = IF has_ptif THEN Inc("records_with_ptif") ELSE tally
    /\ EndIteration
    /\ UNCHANGED <<pdfVars, webVars, script, nrec, ri, record_success, raised, caught, exitCode>>

\* the summary after the loop; return True
FixDone ==
    /\ script = "fix_ptif_status"
    /\ pc \in {"start", "loop"}
    /\ ri = nrec
    /\ pc' = "done"
    /\ exitCode' = 0
    /\ UNCHANGED <<pdfVars, webVars, script, nrec, ri, record, fi, has_ptif, record_success, log, tally, raised, caught>>

(* -------------------------- check_media_files -------------------------- *)

\* for record_id in record_ids: record = RDMRecord.get_record(record_id)
\* with no handler around it: an exception ends the script
CheckLoad ==
    /\ script = "check_media_files"
    /\ pc \in {"start", "loop"}
    /\ ri < nrec
    /\ ri' = ri + 1
    /\ fi' = 0
    /\ \/ /\ record' = NoRecord
          /\ raised' = raised + 1
          /\ pc' = "aborted"
          /\ exitCode' = 1
       \/ \E r \in FileShapes :
            /\ record' = r
            /\ pc' = "files"
            /\ UNCHANGED <<raised, exitCode>>
    /\ UNCHANGED <<pdfVars, webVars, script, nrec, has_ptif, record_success, log, tally, caught>>

\* for filename in record.media_files.keys(): the prints
CheckFile ==
    /\ script = "check_media_files"
    /\ pc = "files"
    /\ IF fi < Len(MediaKeys(record))
         THEN /\ fi' = fi + 1
              /\ UNCHANGED <<pc, record, has_ptif, log>>
         ELSE EndIteration
    /\ UNCHANGED <<pdfVars, webVars, script, nrec, ri, record_success, tally, raised, caught, exitCode>>

CheckDone ==
    /\ script = "check_media_files"
    /\ pc = "loop"
    /\ ri = nrec
    /\ pc' = "done"
    /\ exitCode' = 0
    /\ UNCHANGED <<pdfVars, webVars, script, nrec, ri, record, fi, has_ptif, record_success, log, tally, raised, caught>>

(* ------------------------ generate_missing_tiles ----------------------- *)

\* the pyvips import at the start: ImportError -> return False
GenStart ==
    /\ script = "generate_missing_tiles"
    /\ pc = "start"
    /\ \/ pc' = "loop"
       \/ pc' = "done"
    /\ UNCHANGED <<pdfVars, webVars, script, nrec, ri, record, fi, has_ptif, record_success, log, tally,
                   raised, caught, exitCode>>

\* for record_model in records: try: get_record; media_files checks
GenLoad ==
    /\ script = "generate_missing_tiles"
    /\ pc = "loop"
    /\ ri < nrec
    /\ ri' = ri + 1
    /\ fi' = 0
    /\ log' = << >>
    /\ \/ /\ record' = NoRecord
          /\ raised' = raised + 1
          /\ caught' = caught + 1
          /\ pc' = "loop"
          /\ UNCHANGED tally
       \/ \E r \in RecordShapes :
            /\ UNCHANGED <<raised, caught>>
            /\ IF r.enabled
                 THEN /\ record' = r
                      /\ tally' = Inc("records_with_media_files")
                      /\ pc' = "files"
                 ELSE /\ record' = NoRecord
                      /\ UNCHANGED tally
                      /\ pc' = "loop"
    /\ UNCHANGED <<pdfVars, webVars, script, nrec, has_ptif, record_success, exitCode>>

\* outcomes of one tile generation call: it returns a true value, returns
\* a false value, or raises
GenOutcomes == {"true", "false", "raise"}

\* the test that sends an existing .ptif media file to the converter
GenNeeded(status) == status # "finished"

\* a call that is made a second time when it fails
GenAttemptRetry(calls, ev) ==
    IF ev.ok THEN Append(calls, ev) ELSE Append(Append(calls, ev), ev)

\* a tile generation is called once, whatever its outcome
GenAttempt(calls, ev) == Append(calls, ev)

\* one iteration of: for file_key in record.files.keys()
GenFile ==
    /\ script = "generate_missing_tiles"
    /\ pc = "files"
    /\ fi < Len(record.files)
    /\ fi' = fi + 1
    /\ LET file_key == record.files[fi + 1]
           ptif_key == PtifKey(file_key)
       IN  IF ~HasValidExtension(file_key)
             THEN UNCHANGED <<record, log, tally, raised, caught>>
           ELSE IF ptif_key \in DOMAIN record.media
             THEN LET status == record.media[ptif_key]
                  IN  IF GenNeeded(status)
                        THEN \E out \in GenOutcomes :
                               /\ log' = GenAttempt(log, EvP("converter.convert", ptif_key,
                                                             out = "true", status))
                               /\ IF out = "true"
                                    THEN /\ record' = [record EXCEPT
                                                         !.media[ptif_key] = "finished",
                                                         !.width = @ \cup {file_key}]
                                         /\ tally' = [tally EXCEPT
                                                        !["files_processed"] = @ + 1,
                                                        !["tiles_generated"] = @ + 1]
                                    ELSE /\ UNCHANGED record
                                         /\ tally' = Inc("files_processed")
                               /\ IF out = "raise"
                                    THEN /\ raised' = raised + 1
                                         /\ caught' = caught + 1
                                    ELSE UNCHANGED <<raised, caught>>
                        ELSE /\ tally' = Inc("files_processed")
                             /\ UNCHANGED <<record, log, raised, caught>>
           ELSE \E out \in GenOutcomes :
                  /\ log' = GenAttempt(log, EvP("generate_tiles", ptif_key, out = "true", "absent"))
                  /\ tally' = IF out = "true"
                                THEN [tally EXCEPT !["files_processed"] = @ + 1,
                                                   !["tiles_generated"] = @ + 1]
                                ELSE Inc("files_processed")
                  /\ IF out = "raise"
                       THEN /\ raised' = raised + 1
                            /\ caught' = caught + 1
                       ELSE UNCHANGED <<raised, caught>>
                  /\ UNCHANGED record
    /\ UNCHANGED <<pdfVars, webVars, script, pc, nrec, ri, has_ptif, record_success, exitCode>>

\* uow.register(RecordCommitOp(record)); uow.commit()
GenCommit ==
    /\ script = "generate_missing_tiles"
    /\ pc = "files"
    /\ fi = Len(record.files)
    /\ EndIteration
    /\ UNCHANGED <<pdfVars, webVars, script, nrec, ri, record_success, tally, raised, caught, exitCode>>

GenDone ==
    /\ script = "generate_missing_tiles"
    /\ pc = "loop"
    /\ ri = nrec
    /\ pc' = "done"
    /\ exitCode' = 0
    /\ UNCHANGED <<pdfVars, webVars, script, nrec, ri, record, fi, has_ptif, record_success, log, tally,
                   raised, caught>>

(* ------------------------ fix_process_iiif_tiles ----------------------- *)

\* if not check_iiif_configuration(): return False
FpStart ==
    /\ script = "fix_process_iiif_tiles"
    /\ pc = "start"
    /\ \/ pc' = "loop"
       \/ pc' = "done"
    /\ UNCHANGED <<pdfVars, webVars, script, nrec, ri, record, fi, has_ptif, record_success, log, tally,
                   raised, caught, exitCode>>

\* What TilesProcessor (invenio_rdm_records) may leave in record.media_files:
\* nothing new, or an 'init' status file for source files that have none.
AfterTilesProcessor(r) ==
    { r,
      [r EXCEPT !.media =
          [k \in DOMAIN r.media
                 \cup {PtifKey(f) : f \in {g \in SeqSet(r.files) : HasValidExtension(g)}}
             |-> IF k \in DOMAIN r.media THEN r.media[k] ELSE "init"]] }

\* for record_model in records: try: get_record; the media_files checks;
\* processor(None, record, uow=uow)
FpLoad ==
    /\ script = "fix_process_iiif_tiles"
    /\ pc = "loop"
    /\ ri < nrec
    /\ ri' = ri + 1
    /\ fi' = 0
    /\ record_success' = FALSE
    /\ log' = << >>
    /\ \/ /\ record' = NoRecord
          /\ raised' = raised + 1
          /\ caught' = caught + 1
          /\ tally' = Inc("failed_records")
          /\ pc' = "loop"
       \/ \E r \in RecordShapes :
            /\ UNCHANGED <<raised, caught>>
            /\ IF r.enabled
                 THEN /\ record' \in AfterTilesProcessor(r)
                      /\ UNCHANGED tally
                      /\ pc' = "files"
                 ELSE /\ record' = NoRecord
                      /\ tally' = Inc("failed_records")
                      /\ pc' = "loop"
    /\ UNCHANGED <<pdfVars, webVars, script, nrec, has_ptif, exitCode>>

\* the test that sends an existing .ptif media file to generate_tiles again
FpNeeded(status) == status = "failed"

\* one iteration of: for file_key in record.files.keys().  generate_tiles
\* either returns or raises; an exception leaves the loop over the files
\* for the handler of the record loop.
FpFile ==
    /\ script = "fix_process_iiif_tiles"
    /\ pc = "files"
    /\ fi < Len(record.files)
    /\ LET file_key == record.files[fi + 1]
           ptif_key == PtifKey(file_key)
           present == ptif_key \in DOMAIN record.media
           prior == IF present THEN record.media[ptif_key] ELSE "absent"
       IN  IF HasValidExtension(file_key) /\ (present => FpNeeded(prior))
             THEN \E ok \in BOOLEAN :
                    IF ok
                      THEN /\ log' = Append(log, EvP("generate_tiles", ptif_key, ok, prior))
                           /\ tally' = [tally EXCEPT !["files_processed"] = @ + 1,
                                                     !["files_converted"] = @ + 1]
                           /\ record_success' = TRUE
                           /\ fi' = fi + 1
                           /\ UNCHANGED <<pc, record, has_ptif, raised, caught>>
                      ELSE /\ tally' = [tally EXCEPT !["files_processed"] = @ + 1,
                                                     !["failed_records"] = @ + 1]
                           /\ raised' = raised + 1
                           /\ caught' = caught + 1
                           /\ EndIteration
                           /\ UNCHANGED record_success
             ELSE /\ tally' = Inc("files_processed")
                  /\ fi' = fi + 1
                  /\ UNCHANGED <<pc, record, has_ptif, log, record_success, raised, caught>>
    /\ UNCHANGED <<pdfVars, webVars, script, nrec, ri, exitCode>>

\* uow.commit(); processed_records += 1; the record_success tally
FpCommit ==
    /\ script = "fix_process_iiif_tiles"
    /\ pc = "files"
    /\ fi = Len(record.files)
    /\ tally' = [tally EXCEPT
                   !["processed_records"] = @ + 1,
                   ![IF record_success THEN "successful_records" ELSE "failed_records"] = @ + 1]
    /\ EndIteration
    /\ UNCHANGED <<pdfVars, webVars, script, nrec, ri, record_success, raised, caught, exitCode>>

FpDone ==
    /\ script = "fix_process_iiif_tiles"
    /\ pc = "loop"
    /\ ri = nrec
    /\ pc' = "done"
    /\ exitCode' = 0
    /\ UNCHANGED <<pdfVars, webVars, script, nrec, ri, record, fi, has_ptif, record_success, log, tally,
                   raised, caught>>

(* -------------------------- create_simple_ptif ------------------------- *)

\* for record_id in record_ids: try: get_record; the enabled test; the
\* pdf_files test
CsLoad ==
    /\ script = "create_simple_ptif"
    /\ pc \in {"start", "loop"}
    /\ ri < nrec
    /\ ri' = ri + 1
    /\ fi' = 0
    /\ log' = << >>
    /\ \/ /\ record' = NoRecord
          /\ raised' = raised + 1
          /\ caught' = caught + 1
          /\ pc' = "loop"
       \/ \E r \in FileShapes :
            /\ UNCHANGED <<raised, caught>>
            /\ IF r.enabled /\ PdfFiles(r.files) # << >>
                 THEN /\ record' = r
                      /\ pc' = "files"
                 ELSE /\ record' = NoRecord
                      /\ pc' = "loop"
    /\ UNCHANGED <<pdfVars, webVars, script, nrec, has_ptif, record_success, tally, exitCode>>

\* for pdf_filename in pdf_files: the "already exists" test
CsFile ==
    /\ script = "create_simple_ptif"
    /\ pc = "files"
    /\ fi < Len(PdfFiles(record.files))
    /\ log' = << >>
    /\ IF PtifKey(PdfFiles(record.files)[fi + 1]) \in DOMAIN record.media
         THEN /\ fi' = fi + 1
              /\ pc' = pc
         ELSE /\ fi' = fi
              /\ pc' = "pdfload"
    /\ UNCHANGED <<pdfVars, webVars, script, nrec, ri, record, has_ptif, record_success, tally,
                   raised, caught, exitCode>>

\* a run whose exit code is not looked at
UncheckedRun(ok) == TRUE

\* subprocess.run(..., check=True): the call returns only on exit code 0
CheckedRun(ok) == ok

\* subprocess.run(cmd1, check=True, ...): a non-zero exit raises
\* CalledProcessError, caught by the handler of the conversion
CsPdfload ==
    /\ script = "create_simple_ptif"
    /\ pc = "pdfload"
    /\ \E ok \in BOOLEAN :
         /\ log' = Append(log, Ev("vips pdfload", PdfFiles(record.files)[fi + 1], ok))
         /\ IF CheckedRun(ok)
              THEN /\ pc' = "tiffsave"
                   /\ UNCHANGED <<raised, caught>>
              ELSE /\ pc' = "cleanup"
                   /\ raised' = raised + 1
                   /\ caught' = caught + 1
    /\ UNCHANGED <<pdfVars, webVars, script, nrec, ri, record, fi, has_ptif, record_success, tally,
                   exitCode>>

\* subprocess.run(cmd2, check=True, ...)
CsTiffsave ==
    /\ script = "create_simple_ptif"
    /\ pc = "tiffsave"
    /\ \E ok \in BOOLEAN :
         /\ log' = Append(log, Ev("vips tiffsave", PdfFiles(record.files)[fi + 1], ok))
         /\ IF CheckedRun(ok)
              THEN /\ pc' = "verify"
                   /\ UNCHANGED <<raised, caught>>
              ELSE /\ pc' = "cleanup"
                   /\ raised' = raised + 1
                   /\ caught' = caught + 1
    /\ UNCHANGED <<pdfVars, webVars, script, nrec, ri, record, fi, has_ptif, record_success, tally,
                   exitCode>>

\* an output file taken for granted
CsOutputAssumed(found) == TRUE

\* os.path.exists(ptif_path) and os.path.getsize(ptif_path) > 0
CsOutputFound(found) == found

\* if the output is there, register it; else report and clean up
CsVerify ==
    /\ script = "create_simple_ptif"
    /\ pc = "verify"
    /\ \E ok \in BOOLEAN :
         /\ log' = Append(log, Ev("os.path.exists", PtifKey(PdfFiles(record.files)[fi + 1]), ok))
         /\ pc' = IF CsOutputFound(ok) THEN "create" ELSE "cleanup"
    /\ UNCHANGED <<pdfVars, webVars, script, nrec, ri, record, fi, has_ptif, record_success, tally,
                   raised, caught, exitCode>>

\* ObjectVersion.create(...); db.session.add(obj); db.session.commit()
CsCreate ==
    /\ script = "create_simple_ptif"
    /\ pc = "create"
    /\ \E ok \in BOOLEAN :
         /\ log' = Append(log, Ev("ObjectVersion.create", PtifKey(PdfFiles(record.files)[fi + 1]), ok))
         /\ IF ok
              THEN /\ pc' = "add"
                   /\ UNCHANGED <<raised, caught>>
              ELSE /\ pc' = "cleanup"
                   /\ raised' = raised + 1
                   /\ caught' = caught + 1
    /\ UNCHANGED <<pdfVars, webVars, script, nrec, ri, record, fi, has_ptif, record_success, tally,
                   exitCode>>

\* record.media_files.add(obj_dict); record.commit(); db.session.commit()
CsAdd ==
    /\ script = "create_simple_ptif"
    /\ pc = "add"
    /\ LET ptif_filename == PtifKey(PdfFiles(record.files)[fi + 1])
       IN  /\ record' = [record EXCEPT !.media = (ptif_filename :> "finished") @@ @]
           /\ log' = Append(log, Ev("media_files.add", ptif_filename, TRUE))
    /\ pc' = "cleanup"
    /\ UNCHANGED <<pdfVars, webVars, script, nrec, ri, fi, has_ptif, record_success, tally,
                   raised, caught, exitCode>>

\* finally: the temporary files are removed; next pdf_filename
CsCleanup ==
    /\ script = "create_simple_ptif"
    /\ pc = "cleanup"
    /\ fi' = fi + 1
    /\ pc' = "files"
    /\ UNCHANGED <<pdfVars, webVars, script, nrec, ri, record, has_ptif, record_success, log, tally,
                   raised, caught, exitCode>>

CsEndRecord ==
    /\ script = "create_simple_ptif"
    /\ pc = "files"
    /\ fi = Len(PdfFiles(record.files))
    /\ EndIteration
    /\ UNCHANGED <<pdfVars, webVars, script, nrec, ri, record_success, tally, raised, caught, exitCode>>

CsDone ==
    /\ script = "create_simple_ptif"
    /\ pc \in {"start", "loop"}
    /\ ri = nrec
    /\ pc' = "done"
    /\ exitCode' = 0
    /\ UNCHANGED <<pdfVars, webVars, script, nrec, ri, record, fi, has_ptif, record_success, log, tally,
                   raised, caught>>

(* ------------------------- regenerate_pdf_ptif ------------------------- *)

\* the vips --version check: a failure returns before the record loop
RgStart ==
    /\ script = "regenerate_pdf_ptif"
    /\ pc = "start"
    /\ \/ pc' = "loop"
       \/ pc' = "done"
    /\ UNCHANGED <<pdfVars, webVars, script, nrec, ri, record, fi, has_ptif, record_success, log, tally,
                   raised, caught, exitCode>>

\* for record_model in records: try: get_record; the enabled test
RgLoad ==
    /\ script = "regenerate_pdf_ptif"
    /\ pc = "loop"
    /\ ri < nrec
    /\ ri' = ri + 1
    /\ fi' = 0
    /\ log' = << >>
    /\ \/ /\ record' = NoRecord
          /\ raised' = raised + 1
          /\ caught' = caught + 1
          /\ tally' = Inc("errors")
          /\ pc' = "loop"
       \/ \E r \in FileShapes, record_id \in RecordIds :
            /\ UNCHANGED <<raised, caught>>
            /\ IF r.enabled
                 THEN /\ record' = [r EXCEPT !.id = record_id]
                      /\ tally' = Inc("records_with_media_files")
                      /\ pc' = "files"
                 ELSE /\ record' = NoRecord
                      /\ UNCHANGED tally
                      /\ pc' = "loop"
    /\ UNCHANGED <<pdfVars, webVars, script, nrec, has_ptif, record_success, exitCode>>

\* the directory of output_path, relative to <storage_path>/public:
\* record_id[0:2] / record_id[2:4] / "_"
RegenerateOutputDir(record_id) ==
    <<Str(Slice(record_id, 0, 2)), Str(Slice(record_id, 2, 4)), "_">>

\* for filename in record.files: the .pdf test, the media_files test and the
\* test of the registered file on disk; a missing file has its media_files
\* entry deleted (and the deletion committed) before anything is converted;
\* the output directory is made
RgFile ==
    /\ script = "regenerate_pdf_ptif"
    /\ pc = "files"
    /\ fi < Len(record.files)
    /\ LET filename == record.files[fi + 1]
           ptif_filename == PtifKey(filename)
       IN  IF ~IsPdf(filename)
             THEN /\ fi' = fi + 1
                  /\ log' = << >>
                  /\ UNCHANGED <<pc, record, tally>>
           ELSE IF ptif_filename \notin DOMAIN record.media
             THEN /\ fi' = fi + 1
                  /\ log' = << >>
                  /\ tally' = Inc("pdf_records")
                  /\ UNCHANGED <<pc, record>>
           ELSE \E onDisk \in BOOLEAN :
                  /\ tally' = Inc("pdf_records")
                  /\ IF onDisk
                       THEN /\ fi' = fi + 1
                            /\ log' = << >>
                            /\ UNCHANGED <<pc, record>>
                       ELSE /\ record' = [record EXCEPT !.media =
                                            [k \in DOMAIN @ \ {ptif_filename} |-> @[k]]]
                            /\ log' = <<EvP("media_files.delete", ptif_filename, TRUE,
                                             record.media[ptif_filename]),
                                         Ev("os.makedirs", RegenerateOutputDir(record.id), TRUE)>>
                            /\ pc' = "pdfload"
                            /\ fi' = fi
    /\ UNCHANGED <<pdfVars, webVars, script, nrec, ri, has_ptif, record_success, raised, caught, exitCode>>

\* subprocess.run(cmd) with cmd = vips pdfload ... --layout=openslide; the
\* exit code is tested
RgPdfload ==
    /\ script = "regenerate_pdf_ptif"
    /\ pc = "pdfload"
    /\ \E ok \in BOOLEAN :
         /\ log' = Append(log, Ev("vips pdfload", record.files[fi + 1], ok))
         /\ IF ok
              THEN /\ pc' = "verify"
                   /\ UNCHANGED <<fi, tally>>
              ELSE /\ pc' = "files"
                   /\ fi' = fi + 1
                   /\ tally' = Inc("errors")
    /\ UNCHANGED <<pdfVars, webVars, script, nrec, ri, record, has_ptif, record_success,
                   raised, caught, exitCode>>

\* if not os.path.exists(output_path)
RgVerify ==
    /\ script = "regenerate_pdf_ptif"
    /\ pc = "verify"
    /\ \E ok \in BOOLEAN :
         /\ log' = Append(log, Ev("os.path.exists", PtifKey(record.files[fi + 1]), ok))
         /\ IF ok
              THEN /\ pc' = "register"
                   /\ UNCHANGED <<fi, tally>>
              ELSE /\ pc' = "files"
                   /\ fi' = fi + 1
                   /\ tally' = Inc("errors")
    /\ UNCHANGED <<pdfVars, webVars, script, nrec, ri, record, has_ptif, record_success,
                   raised, caught, exitCode>>

RgRegisterOutcomes == {"ok", "ObjectVersion.create raises", "media_files.add raises"}

\* try: ObjectVersion.create, commit, media_files.add, commits;
\* except: errors += 1
RgRegister ==
    /\ script = "regenerate_pdf_ptif"
    /\ pc = "register"
    /\ LET ptif_filename == PtifKey(record.files[fi + 1])
       IN  \E out \in RgRegisterOutcomes :
             /\ log' = log \o
                  (IF out = "ObjectVersion.create raises"
                     THEN <<Ev("ObjectVersion.create", ptif_filename, FALSE)>>
                     ELSE <<Ev("ObjectVersion.create", ptif_filename, TRUE),
                            Ev("media_files.add", ptif_filename, out = "ok")>>)
             /\ IF out = "ok"
                  THEN /\ record' = [record EXCEPT !.media = (ptif_filename :> "finished") @@ @]
                       /\ tally' = Inc("ptif_files_regenerated")
                       /\ UNCHANGED <<raised, caught>>
                  ELSE /\ tally' = Inc("errors")
                       /\ raised' = raised + 1
                       /\ caught' = caught + 1
                       /\ UNCHANGED record
    /\ fi' = fi + 1
    /\ pc' = "files"
    /\ UNCHANGED <<pdfVars, webVars, script, nrec, ri, has_ptif, record_success, exitCode>>

RgEndRecord ==
    /\ script = "regenerate_pdf_ptif"
    /\ pc = "files"
    /\ fi = Len(record.files)
    /\ EndIteration
    /\ UNCHANGED <<pdfVars, webVars, script, nrec, ri, record_success, tally, raised, caught, exitCode>>

RgDone ==
    /\ script = "regenerate_pdf_ptif"
    /\ pc = "loop"
    /\ ri = nrec
    /\ pc' = "done"
    /\ exitCode' = 0
    /\ UNCHANGED <<pdfVars, webVars, script, nrec, ri, record, fi, has_ptif, record_success, log, tally,
                   raised, caught>>

(* ------------------------ create_pdf_ptif_manual ----------------------- *)

\* the vips --version check
MnStart ==
    /\ script = "create_pdf_ptif_manual"
    /\ pc = "start"
    /\ \/ pc' = "loop"
       \/ pc' = "done"
    /\ UNCHANGED <<pdfVars, webVars, script, nrec, ri, record, fi, has_ptif, record_success, log, tally,
                   raised, caught, exitCode>>

\* for record_model in records: try: get_record; the enabled test
MnLoad ==
    /\ script = "create_pdf_ptif_manual"
    /\ pc = "loop"
    /\ ri < nrec
    /\ ri' = ri + 1
    /\ fi' = 0
    /\ log' = << >>
    /\ \/ /\ record' = NoRecord
          /\ raised' = raised + 1
          /\ caught' = caught + 1
          /\ tally' = Inc("errors")
          /\ pc' = "loop"
       \/ \E r \in FileShapes :
            /\ UNCHANGED <<raised, caught>>
            /\ IF r.enabled
                 THEN /\ record' = r
                      /\ tally' = Inc("records_with_media_files")
                      /\ pc' = "files"
                 ELSE /\ record' = NoRecord
                      /\ UNCHANGED tally
                      /\ pc' = "loop"
    /\ UNCHANGED <<pdfVars, webVars, script, nrec, has_ptif, record_success, exitCode>>

\* for filename in record.files: the .pdf test, the media_files test and the
\* test of the registered file on disk
MnFile ==
    /\ script = "create_pdf_ptif_manual"
    /\ pc = "files"
    /\ fi < Len(record.files)
    /\ log' = << >>
    /\ LET filename == record.files[fi + 1]
       IN  IF ~IsPdf(filename)
             THEN /\ fi' = fi + 1
                  /\ UNCHANGED <<pc, tally>>
           ELSE IF PtifKey(filename) \notin DOMAIN record.media
             THEN /\ fi' = fi + 1
                  /\ tally' = Inc("pdf_records")
                  /\ UNCHANGED pc
           ELSE \E onDisk \in BOOLEAN :
                  /\ tally' = Inc("pdf_records")
                  /\ IF onDisk
                       THEN /\ fi' = fi + 1
                            /\ UNCHANGED pc
                       ELSE /\ pc' = "pdfload"
                            /\ fi' = fi
    /\ UNCHANGED <<pdfVars, webVars, script, nrec, ri, record, has_ptif, record_success,
                   raised, caught, exitCode>>

\* an exit code that is never taken for a failure
MnNeverFailed(ok) == FALSE

\* if result1.returncode != 0 / if result2.returncode != 0
MnFailed(ok) == ~ok

\* result1 = subprocess.run(cmd1); if result1.returncode != 0: errors += 1;
\* continue
MnPdfload ==
    /\ script = "create_pdf_ptif_manual"
    /\ pc = "pdfload"
    /\ \E ok \in BOOLEAN :
         /\ log' = Append(log, Ev("vips pdfload", record.files[fi + 1], ok))
         /\ IF ~MnFailed(ok)
              THEN /\ pc' = "tiffsave"
                   /\ UNCHANGED <<fi, tally>>
              ELSE /\ pc' = "files"
                   /\ fi' = fi + 1
                   /\ tally' = Inc("errors")
    /\ UNCHANGED <<pdfVars, webVars, script, nrec, ri, record, has_ptif, record_success,
                   raised, caught, exitCode>>

\* result2 = subprocess.run(cmd2); the temporary TIFF is removed; the exit
\* code is tested
MnTiffsave ==
    /\ script = "create_pdf_ptif_manual"
    /\ pc = "tiffsave"
    /\ \E ok \in BOOLEAN :
         /\ log' = Append(log, Ev("vips tiffsave", record.files[fi + 1], ok))
         /\ IF ~MnFailed(ok)
              THEN /\ pc' = "verify"
                   /\ UNCHANGED <<fi, tally>>
              ELSE /\ pc' = "files"
                   /\ fi' = fi + 1
                   /\ tally' = Inc("errors")
    /\ UNCHANGED <<pdfVars, webVars, script, nrec, ri, record, has_ptif, record_success,
                   raised, caught, exitCode>>

\* if not os.path.exists(uri): errors += 1; continue;
\* else os.chmod and ptif_files_created += 1
MnVerify ==
    /\ script = "create_pdf_ptif_manual"
    /\ pc = "verify"
    /\ \E ok \in BOOLEAN :
         /\ log' = Append(log, Ev("os.path.exists", PtifKey(record.files[fi + 1]), ok))
         /\ tally' = IF ok THEN Inc("ptif_files_created") ELSE Inc("errors")
    /\ pc' = "files"
    /\ fi' = fi + 1
    /\ UNCHANGED <<pdfVars, webVars, script, nrec, ri, record, has_ptif, record_success,
                   raised, caught, exitCode>>

MnEndRecord ==
    /\ script = "create_pdf_ptif_manual"
    /\ pc = "files"
    /\ fi = Len(record.files)
    /\ EndIteration
    /\ UNCHANGED <<pdfVars, webVars, script, nrec, ri, record_success, tally, raised, caught, exitCode>>

MnDone ==
    /\ script = "create_pdf_ptif_manual"
    /\ pc = "loop"
    /\ ri = nrec
    /\ pc' = "done"
    /\ exitCode' = 0
    /\ UNCHANGED <<pdfVars, webVars, script, nrec, ri, record, fi, has_ptif, record_success, log, tally,
                   raised, caught>>

(* ---------------------- create_pdf_multipage_ptif ---------------------- *)

\* large PDFs: min(page_count, 10) pages are processed if page_count > 20
LargePdfThreshold == 20
LargePdfPages == 10

\* max_pages_to_process
MaxPagesToProcess(n) ==
    IF n > LargePdfThreshold
      THEN (IF n < LargePdfPages THEN n ELSE LargePdfPages)
      ELSE n

\* the vips --version and pdfinfo -v checks
MpStart ==
    /\ script = "create_pdf_multipage_ptif"
    /\ pc = "start"
    /\ \/ pc' = "loop"
       \/ pc' = "done"
    /\ UNCHANGED <<pdfVars, webVars, script, nrec, ri, record, fi, has_ptif, record_success, log, tally,
                   raised, caught, exitCode>>

\* for record_model in records: try: get_record; the enabled test. The
\* script reads media_files.enabled and bucket_id and never a media file key,
\* so the records it meets differ in record.files only.
MpLoad ==
    /\ script = "create_pdf_multipage_ptif"
    /\ pc = "loop"
    /\ ri < nrec
    /\ ri' = ri + 1
    /\ fi' = 0
    /\ log' = << >>
    /\ \/ /\ record' = NoRecord
          /\ raised' = raised + 1
          /\ caught' = caught + 1
          /\ tally' = Inc("errors")
          /\ pc' = "loop"
       \/ \E r \in {x \in FileShapes : x.media = NoMedia} :
            /\ UNCHANGED <<raised, caught>>
            /\ IF r.enabled
                 THEN /\ record' = r
                      /\ tally' = Inc("records_with_media_files")
                      /\ pc' = "files"
                 ELSE /\ record' = NoRecord
                      /\ UNCHANGED tally
                      /\ pc' = "loop"
    /\ UNCHANGED <<pdfVars, webVars, script, nrec, has_ptif, record_success, exitCode>>

\* for filename in record.files: the .pdf test; page_count =
\* get_pdf_page_count(...) (what pdfinfo reports, 1 when it reports
\* nothing); the manifest with its page_files is written
MpFile ==
    /\ script = "create_pdf_multipage_ptif"
    /\ pc = "files"
    /\ fi < Len(record.files)
    /\ log' = << >>
    /\ LET filename == record.files[fi + 1]
       IN  IF ~IsPdf(filename)
             THEN /\ fi' = fi + 1
                  /\ UNCHANGED <<pc, tally, pdfVars>>
             ELSE \E n \in (1..MaxPages) \cup {LargePdfThreshold + 1} :
                    /\ page_count' = n
                    /\ page_files' = [p \in 1..n |-> PagePtifKey(filename, p)]
                    /\ page_num' = 1
                    /\ tally' = [tally EXCEPT
                                   !["pdf_records"] = @ + 1,
                                   !["total_pdf_pages"] = @ + n,
                                   !["multi_page_pdfs"] = IF n > 1 THEN @ + 1 ELSE @]
                    /\ pc' = "page"
                    /\ UNCHANGED <<fi, diskPages>>
    /\ UNCHANGED <<webVars, script, nrec, ri, record, has_ptif, record_success,
                   raised, caught, exitCode>>

\* result1 = subprocess.run(cmd1) for page page_num (vips page index
\* page_num - 1); the first call made for the page
MpPdfload ==
    /\ script = "create_pdf_multipage_ptif"
    /\ pc = "page"
    /\ page_num <= MaxPagesToProcess(page_count)
    /\ \E ok \in BOOLEAN :
         /\ log' = <<Ev("vips pdfload", PagePtifKey(record.files[fi + 1], page_num), ok)>>
         /\ IF ok
              THEN /\ pc' = "tiffsave"
                   /\ UNCHANGED <<page_num, tally>>
              ELSE /\ pc' = "page"
                   /\ page_num' = page_num + 1
                   /\ tally' = Inc("errors")
    /\ UNCHANGED <<page_count, diskPages, page_files, webVars, script, nrec, ri, record, fi, has_ptif,
                   record_success, raised, caught, exitCode>>

\* result2 = subprocess.run(cmd2); the temporary TIFF is removed; the exit
\* code is tested
MpTiffsave ==
    /\ script = "create_pdf_multipage_ptif"
    /\ pc = "tiffsave"
    /\ \E ok \in BOOLEAN :
         /\ log' = Append(log, Ev("vips tiffsave", PagePtifKey(record.files[fi + 1], page_num), ok))
         /\ IF ok
              THEN /\ pc' = "verify"
                   /\ UNCHANGED <<page_num, tally>>
              ELSE /\ pc' = "page"
                   /\ page_num' = page_num + 1
                   /\ tally' = Inc("errors")
    /\ UNCHANGED <<page_count, diskPages, page_files, webVars, script, nrec, ri, record, fi, has_ptif,
                   record_success, raised, caught, exitCode>>

\* if not os.path.exists(manual_file_path): errors += 1; continue;
\* else ptif_files_created += 1
MpVerify ==
    /\ script = "create_pdf_multipage_ptif"
    /\ pc = "verify"
    /\ \E ok \in BOOLEAN :
         /\ log' = Append(log, Ev("os.path.exists", PagePtifKey(record.files[fi + 1], page_num), ok))
         /\ tally' = IF ok THEN Inc("ptif_files_created") ELSE Inc("errors")
    /\ pc' = "page"
    /\ page_num' = page_num + 1
    /\ UNCHANGED <<page_count, diskPages, page_files, webVars, script, nrec, ri, record, fi, has_ptif,
                   record_success, raised, caught, exitCode>>

\* the page loop of a PDF is over: next filename
MpNextFile ==
    /\ script = "create_pdf_multipage_ptif"
    /\ pc = "page"
    /\ page_num > MaxPagesToProcess(page_count)
    /\ fi' = fi + 1
    /\ pc' = "files"
    /\ page_num' = 0
    /\ page_count' = 0
    /\ page_files' = << >>
    /\ log' = << >>
    /\ UNCHANGED <<diskPages, webVars, script, nrec, ri, record, has_ptif, record_success, tally,
                   raised, caught, exitCode>>

MpEndRecord ==
    /\ script = "create_pdf_multipage_ptif"
    /\ pc = "files"
    /\ fi = Len(record.files)
    /\ EndIteration
    /\ UNCHANGED <<pdfVars, webVars, script, nrec, ri, record_success, tally, raised, caught, exitCode>>

\* the registration script and the summary are written
MpDone ==
    /\ script = "create_pdf_multipage_ptif"
    /\ pc = "loop"
    /\ ri = nrec
    /\ pc' = "done"
    /\ exitCode' = 0
    /\ UNCHANGED <<pdfVars, webVars, script, nrec, ri, record, fi, has_ptif, record_success, log, tally,
                   raised, caught>>

(* -------------------------- register_pdf_ptif -------------------------- *)

\* for record_id in record_ids: try: RDMRecord.pid.resolve; the enabled
\* test; the pdf_files test
RpLoad ==
    /\ script = "register_pdf_ptif"
    /\ pc \in {"start", "loop"}
    /\ ri < nrec
    /\ ri' = ri + 1
    /\ fi' = 0
    /\ log' = << >>
    /\ \/ /\ record' = NoRecord
          /\ raised' = raised + 1
          /\ caught' = caught + 1
          /\ tally' = Inc("errors")
          /\ pc' = "loop"
       \/ \E r \in FileShapes :
            /\ UNCHANGED <<raised, caught, tally>>
            /\ IF r.enabled /\ PdfFiles(r.files) # << >>
                 THEN /\ record' = r
                      /\ pc' = "files"
                 ELSE /\ record' = NoRecord
                      /\ pc' = "loop"
    /\ UNCHANGED <<pdfVars, webVars, script, nrec, has_ptif, record_success, exitCode>>

\* for pdf_filename in pdf_files: the "already registered" test and the
\* search for the PTIF file under the prefixes "21" and "20"
RpFile ==
    /\ script = "register_pdf_ptif"
    /\ pc = "files"
    /\ fi < Len(PdfFiles(record.files))
    /\ LET ptif_filename == PtifKey(PdfFiles(record.files)[fi + 1])
       IN  IF ptif_filename \in DOMAIN record.media
             THEN /\ fi' = fi + 1
                  /\ log' = << >>
                  /\ UNCHANGED <<pc, pdfVars>>
             ELSE \E found \in BOOLEAN :
                    /\ log' = <<Ev("os.path.exists", ptif_filename, found)>>
                    /\ IF found
                         THEN /\ pc' = "register"
                              /\ diskPages' \in SUBSET (1..MaxPages)
                              /\ UNCHANGED <<fi, page_count, page_num, page_files>>
                         ELSE /\ fi' = fi + 1
                              /\ UNCHANGED <<pc, pdfVars>>
    /\ UNCHANGED <<webVars, script, nrec, ri, record, has_ptif, record_success, tally,
                   raised, caught, exitCode>>

\* try: ObjectVersion.create, commit, media_files.add, commits;
\* ptif_files_registered += 1; page_count = 1
RpRegister ==
    /\ script = "register_pdf_ptif"
    /\ pc = "register"
    /\ LET ptif_filename == PtifKey(PdfFiles(record.files)[fi + 1])
       IN  \E ok \in BOOLEAN :
             /\ log' = Append(log, Ev("media_files.add", ptif_filename, ok))
             /\ IF ok
                  THEN /\ record' = [record EXCEPT !.media = (ptif_filename :> "finished") @@ @]
                       /\ tally' = Inc("ptif_files_registered")
                       /\ page_count' = 1
                       /\ pc' = "pages"
                       /\ UNCHANGED <<fi, raised, caught, diskPages>>
                  ELSE /\ tally' = Inc("errors")
                       /\ raised' = raised + 1
                       /\ caught' = caught + 1
                       /\ fi' = fi + 1
                       /\ pc' = "files"
                       /\ diskPages' = {}
                       /\ UNCHANGED <<record, page_count>>
    /\ UNCHANGED <<page_num, page_files, webVars, script, nrec, ri, has_ptif, record_success, exitCode>>

\* page_count += 1 after a page file has been registered
RpNextPage(n) == n + 1

\* a page loop that is never left
RpNoBreak == UNCHANGED <<fi, pc, page_count, diskPages>>

\* else: break -- the first missing page file ends the `while True` loop
RpBreak ==
    /\ fi' = fi + 1
    /\ pc' = "files"
    /\ page_count' = 0
    /\ diskPages' = {}

\* one iteration of the `while True` loop over <pdf>.page-<n>.ptif
RpPage ==
    /\ script = "register_pdf_ptif"
    /\ pc = "pages"
    /\ LET page_ptif_filename == PagePtifKey(PdfFiles(record.files)[fi + 1], page_count)
       IN  IF page_count \in diskPages
             THEN \E ok \in BOOLEAN :
                    /\ log' = log \o <<Ev("os.path.exists", page_ptif_filename, TRUE),
                                        Ev("media_files.add", page_ptif_filename, ok)>>
                    /\ IF ok
                         THEN /\ record' = [record EXCEPT
                                              !.media = (page_ptif_filename :> "finished") @@ @]
                              /\ tally' = Inc("ptif_files_registered")
                              /\ page_count' = RpNextPage(page_count)
                              /\ UNCHANGED <<pc, fi, raised, caught, diskPages>>
                         ELSE /\ tally' = Inc("errors")
                              /\ raised' = raised + 1
                              /\ caught' = caught + 1
                              /\ fi' = fi + 1
                              /\ pc' = "files"
                              /\ page_count' = 0
                              /\ diskPages' = {}
                              /\ UNCHANGED record
             ELSE /\ RpBreak
                  /\ UNCHANGED <<record, tally, log, raised, caught>>
    /\ UNCHANGED <<page_num, page_files, webVars, script, nrec, ri, has_ptif, record_success, exitCode>>

\* records_processed += 1 after the loop over pdf_files
RpEndRecord ==
    /\ script = "register_pdf_ptif"
    /\ pc = "files"
    /\ fi = Len(PdfFiles(record.files))
    /\ tally' = Inc("records_processed")
    /\ EndIteration
    /\ UNCHANGED <<pdfVars, webVars, script, nrec, ri, record_success, raised, caught, exitCode>>

RpDone ==
    /\ script = "register_pdf_ptif"
    /\ pc \in {"start", "loop"}
    /\ ri = nrec
    /\ pc' = "done"
    /\ exitCode' = 0
    /\ UNCHANGED <<pdfVars, webVars, script, nrec, ri, record, fi, has_ptif, record_success, log, tally,
                   raised, caught>>

(* ------------------------------ behaviour ------------------------------ *)


(* ----------------------------- batch_convert --------------------------- *)

\* what the record API returns as the files of the record
ApiFileLists ==
    { << >>, <<TxtNotes>>, <<ImgJpg, TxtNotes>>, <<PlateTif, PdfDoc, CoverPng>>,
      <<ImgJpg, CoverPng, PlateTif>>, <<ImgJpg, <<"img", ".png">>>> }

\* get_record_files: the keys ending in an image extension, in API order
ImageFiles(files) == SelectSeq(files, IsImage)

\* convert_to_ptif: False when the input is missing, when vips tiffsave
\* exits non-zero, or when reading the size of the output raises
ConvertToPtif(input_exists, returncode0, output_exists) ==
    input_exists /\ returncode0 /\ output_exists

\* copy_to_iipserver: False when the PTIF is missing, when docker cp exits
\* non-zero, or when shutil.copy2 / os.remove raise
CopyToIipserver(ptif_exists, copied, returncode0, removed) ==
    ptif_exists /\ copied /\ returncode0 /\ removed

\* ptif_path = f"{os.path.splitext(download_path)[0]}.ptif", relative to
\* the temporary directory of the record
PtifPath(filename) == Append(SubSeq(filename, 1, Len(filename) - 1), PTIF)

\* copy_to_iipserver: target_filename = f"private_{record_id}_{base_name}.ptif"
\* with base_name the name of the PTIF file without its extension
TargetFilename(ptif_file) ==
    <<"private_<record_id>_">> \o SubSeq(ptif_file, 1, Len(ptif_file) - 1) \o <<PTIF>>

\* a failure that is not counted
BcFailUncounted(t) == t

\* failed_count += 1; continue
BcFail(t) == [t EXCEPT !["failed_count"] = @ + 1]

\* a result that does not look at the count
BatchResultAlways(success_count) == TRUE

\* return success_count > 0
BatchResult(success_count) == success_count > 0

\* if len(sys.argv) < 2: usage, sys.exit(1)
BcStart ==
    /\ script = "batch_convert"
    /\ pc = "start"
    /\ IF nrec = 0
         THEN /\ pc' = "done"
              /\ exitCode' = 1
         ELSE /\ pc' = "get"
              /\ UNCHANGED exitCode
    /\ UNCHANGED <<pdfVars, webVars, script, nrec, ri, record, fi, has_ptif, record_success,
                   log, tally, raised, caught>>

\* image_files = get_record_files(record_id); if not image_files: return
\* False, and the script exits 1
BcGet ==
    /\ script = "batch_convert"
    /\ pc = "get"
    /\ ri' = 1
    /\ \/ \* HTTP status other than 200
          /\ UNCHANGED <<image_files, raised, caught>>
          /\ pc' = "done"
          /\ exitCode' = 1
       \/ \* the request or the decoding raises: caught, None is returned
          /\ UNCHANGED image_files
          /\ raised' = raised + 1
          /\ caught' = caught + 1
          /\ pc' = "done"
          /\ exitCode' = 1
       \/ \E files \in ApiFileLists :
            /\ UNCHANGED <<raised, caught>>
            /\ image_files' = ImageFiles(files)
            /\ IF ImageFiles(files) = << >>
                 THEN /\ pc' = "done"
                      /\ exitCode' = 1
                 ELSE /\ pc' = "download"
                      /\ UNCHANGED exitCode
    /\ UNCHANGED <<pdfVars, disk, canvases, PREVIEWER_PREFERENCE, AUTH_TOKEN, script, nrec, record, fi, has_ptif,
                   record_success, log, tally>>

\* download_path = download_file(record_id, filename, temp_dir)
BcDownload ==
    /\ script = "batch_convert"
    /\ pc = "download"
    /\ fi < Len(image_files)
    /\ \E ok \in BOOLEAN :
         /\ log' = Append(log, Ev("download_file", image_files[fi + 1], ok))
         /\ IF ok
              THEN /\ pc' = "convert"
                   /\ UNCHANGED <<fi, tally>>
              ELSE /\ tally' = BcFail(tally)
                   /\ fi' = fi + 1
                   /\ UNCHANGED pc
    /\ UNCHANGED <<pdfVars, webVars, script, nrec, ri, record, has_ptif, record_success,
                   raised, caught, exitCode>>

\* if not convert_to_ptif(download_path, ptif_path)
BcConvert ==
    /\ script = "batch_convert"
    /\ pc = "convert"
    /\ \E returncode0 \in BOOLEAN, output_exists \in BOOLEAN :
         LET ok == ConvertToPtif(TRUE, returncode0, output_exists)
         IN  /\ log' = Append(log, Ev("convert_to_ptif", image_files[fi + 1], ok))
             /\ IF ok
                  THEN /\ pc' = "copy"
                       /\ UNCHANGED <<fi, tally>>
                  ELSE /\ tally' = BcFail(tally)
                       /\ fi' = fi + 1
                       /\ pc' = "download"
    /\ UNCHANGED <<pdfVars, webVars, script, nrec, ri, record, has_ptif, record_success,
                   raised, caught, exitCode>>

\* ptif_filename = copy_to_iipserver(ptif_path, record_id); success_count += 1;
\* a docker cp that exited 0 has written the target file in the IIPServer
\* (disk: target name -> the image it was made from)
BcCopy ==
    /\ script = "batch_convert"
    /\ pc = "copy"
    /\ \E copied \in BOOLEAN, returncode0 \in BOOLEAN, removed \in BOOLEAN :
         LET ok == CopyToIipserver(TRUE, copied, returncode0, removed)
         IN  /\ log' = Append(log, Ev("copy_to_iipserver", image_files[fi + 1], ok))
             /\ tally' = IF ok THEN Inc("success_count") ELSE BcFail(tally)
             /\ disk' = IF copied /\ returncode0
                          THEN (TargetFilename(PtifPath(image_files[fi + 1]))
                                  :> image_files[fi + 1]) @@ disk
                          ELSE disk
    /\ fi' = fi + 1
    /\ pc' = "download"
    /\ UNCHANGED <<pdfVars, image_files, canvases, PREVIEWER_PREFERENCE, AUTH_TOKEN, script, nrec, ri, record, has_ptif, record_success,
                   raised, caught, exitCode>>

\* print(f"Conversion complete: {success_count} successful, {failed_count} failed")
BcSummary ==
    /\ script = "batch_convert"
    /\ pc = "download"
    /\ fi = Len(image_files)
    /\ pc' = "summary"
    /\ UNCHANGED <<pdfVars, webVars, script, nrec, ri, record, fi, has_ptif, record_success,
                   log, tally, raised, caught, exitCode>>

\* verify_iiif_manifest (result not used); return success_count > 0; the
\* temporary directory is removed; sys.exit(0) or sys.exit(1)
BcExit ==
    /\ script = "batch_convert"
    /\ pc = "summary"
    /\ pc' = "done"
    /\ exitCode' = IF BatchResult(tally["success_count"]) THEN 0 ELSE 1
    /\ UNCHANGED <<pdfVars, webVars, script, nrec, ri, record, fi, has_ptif, record_success,
                   log, tally, raised, caught>>

(* ------------------------ convert_existing_records --------------------- *)

\* if len(sys.argv) > 1: process_records(sys.argv[1:]) else usage, exit 1
CeStart ==
    /\ script = "convert_existing_records"
    /\ pc = "start"
    /\ IF nrec = 0
         THEN /\ pc' = "done"
              /\ exitCode' = 1
         ELSE /\ pc' = "loop"
              /\ UNCHANGED exitCode
    /\ UNCHANGED <<pdfVars, webVars, script, nrec, ri, record, fi, has_ptif, record_success,
                   log, tally, raised, caught>>

\* if generate_iiif_tiles(recid): success += 1 else: failure += 1; an
\* exception inside generate_iiif_tiles is caught there and gives False
CeRecord ==
    /\ script = "convert_existing_records"
    /\ pc = "loop"
    /\ ri < nrec
    /\ ri' = ri + 1
    /\ \/ /\ tally' = Inc("success")
          /\ UNCHANGED <<raised, caught>>
       \/ /\ tally' = Inc("failure")
          /\ raised' = raised + 1
          /\ caught' = caught + 1
    /\ UNCHANGED <<pdfVars, webVars, script, pc, nrec, record, fi, has_ptif, record_success,
                   log, exitCode>>

\* print(f"Processing complete: {success} successful, {failure} failed")
CeSummary ==
    /\ script = "convert_existing_records"
    /\ pc = "loop"
    /\ ri = nrec
    /\ pc' = "summary"
    /\ UNCHANGED <<pdfVars, webVars, script, nrec, ri, record, fi, has_ptif, record_success,
                   log, tally, raised, caught, exitCode>>

CeExit ==
    /\ script = "convert_existing_records"
    /\ pc = "summary"
    /\ pc' = "done"
    /\ exitCode' = 0
    /\ UNCHANGED <<pdfVars, webVars, script, nrec, ri, record, fi, has_ptif, record_success,
                   log, tally, raised, caught>>

(* ------------------------------ serve_viewer --------------------------- *)

\* socketserver.TCPServer(("", PORT), ...): binding the port may fail, and
\* nothing catches that; otherwise httpd.serve_forever() is entered
SvServe ==
    /\ script = "serve_viewer"
    /\ pc = "start"
    /\ \/ /\ pc' = "serving"
          /\ UNCHANGED <<raised, exitCode>>
       \/ /\ pc' = "aborted"
          /\ raised' = raised + 1
          /\ exitCode' = 1
    /\ UNCHANGED <<pdfVars, webVars, script, nrec, ri, record, fi, has_ptif, record_success,
                   log, tally, caught>>

\* serve_forever waits; a request of a client arrives
SvRequest ==
    /\ script = "serve_viewer"
    /\ pc = "serving"
    /\ pc' = "handling"
    /\ UNCHANGED <<pdfVars, webVars, script, nrec, ri, record, fi, has_ptif, record_success,
                   log, tally, raised, caught, exitCode>>

\* CORSHTTPRequestHandler answers the request and serve_forever goes on
SvHandle ==
    /\ script = "serve_viewer"
    /\ pc = "handling"
    /\ pc' = "serving"
    /\ UNCHANGED <<pdfVars, webVars, script, nrec, ri, record, fi, has_ptif, record_success,
                   log, tally, raised, caught, exitCode>>

\* except KeyboardInterrupt: the user stops the server
SvInterrupt ==
    /\ script = "serve_viewer"
    /\ pc = "serving"
    /\ pc' = "done"
    /\ raised' = raised + 1
    /\ caught' = caught + 1
    /\ exitCode' = 0
    /\ UNCHANGED <<pdfVars, webVars, script, nrec, ri, record, fi, has_ptif, record_success,
                   log, tally>>

(* ----------------------------- modify_manifest ------------------------- *)

\* for pattern_prefix in ["21", "20"]
PatternPrefixes == <<"21", "20">>

\* the page files <pdf>.page-1.ptif .. <pdf>.page-n.ptif
PageFiles(name, n) == [i \in 1..n |-> PagePtifKey(name, i)]

\* os.listdir of the directory of prefix "21"
Listings21 ==
    {PageFiles(PdfDoc, n) \o <<PtifKey(PdfDoc)>> : n \in 0..MaxPages}
      \cup {<<PtifKey(PdfDoc), TxtNotes>> \o PageFiles(PdfDoc, n) : n \in 1..MaxPages}
      \cup {<< >>, <<TxtNotes>>, <<PtifKey(PdfDoc), PagePtifKey(PdfDoc, 2)>>}

\* os.listdir of the directory of prefix "20" (empty when it does not exist)
Listings20 == {<< >>, <<PtifKey(PdfScan)>>}

Disks == {("21" :> l21) @@ ("20" :> l20) : l21 \in Listings21, l20 \in Listings20}

\* the .ptif files of one directory, as the dictionaries of ptif_files
PtifFilesIn(d, prefix) ==
    LET names == SelectSeq(d[prefix], LAMBDA f : EndsWith(f, PTIF))
    IN  [i \in 1..Len(names) |-> [filename |-> names[i], dir_pattern |-> prefix]]

\* ptif_files: the .ptif files of the directories of the two prefixes
PtifFiles(d) ==
    IF d = NoDisk THEN << >>
    ELSE PtifFilesIn(d, PatternPrefixes[1]) \o PtifFilesIn(d, PatternPrefixes[2])

\* pdf_filenames = [f["filename"][:-5] for f in ptif_files ...]
PdfFilenames(d) == [i \in 1..Len(PtifFiles(d)) |-> StripPtif(PtifFiles(d)[i].filename)]

\* the "@id" of the canvas of a file: .../record:{record_id}/canvas/{filename}
CanvasId(filename) == <<"canvas">> \o filename

\* canvases of the manifest the server returns
ManifestCanvases == {<< >>, <<CanvasId(ImgJpg)>>}

\* the locals of an iteration of modify_manifest are dead after it
MmEndIteration ==
    /\ EndIteration
    /\ disk' = NoDisk
    /\ canvases' = << >>
    /\ page_count' = 0

\* response = requests.get(manifest_url); the canvases of the manifest; the
\* listing of the .ptif files; if ptif_files and not canvases
MmLoad ==
    /\ script = "modify_manifest"
    /\ pc \in {"start", "loop"}
    /\ ri < nrec
    /\ ri' = ri + 1
    /\ fi' = 0
    /\ \/ \* status code other than 200: continue
          /\ pc' = "loop"
          /\ UNCHANGED <<disk, canvases, raised, caught>>
       \/ \* the request raises: the handler of the record prints it
          /\ pc' = "loop"
          /\ raised' = raised + 1
          /\ caught' = caught + 1
          /\ UNCHANGED <<disk, canvases>>
       \/ \E cv \in ManifestCanvases, d \in Disks :
            /\ UNCHANGED <<raised, caught>>
            /\ IF PtifFiles(d) # << >> /\ cv = << >>
                 THEN /\ pc' = "canvases"
                      /\ disk' = d
                      /\ canvases' = cv
                 ELSE /\ pc' = "loop"
                      /\ UNCHANGED <<disk, canvases>>
    /\ UNCHANGED <<pdfVars, image_files, PREVIEWER_PREFERENCE, AUTH_TOKEN, script, nrec, record, has_ptif,
                   record_success, log, tally, exitCode>>

\* for ptif_file in ptif_files: the canvas of the file is appended; an
\* exception of pyvips is printed and the file skipped
MmCanvas ==
    /\ script = "modify_manifest"
    /\ pc = "canvases"
    /\ fi < Len(PtifFiles(disk))
    /\ fi' = fi + 1
    /\ \/ /\ canvases' = Append(canvases, CanvasId(PtifFiles(disk)[fi + 1].filename))
          /\ UNCHANGED <<raised, caught>>
       \/ /\ raised' = raised + 1
          /\ caught' = caught + 1
          /\ UNCHANGED canvases
    /\ UNCHANGED <<pdfVars, image_files, disk, PREVIEWER_PREFERENCE, AUTH_TOKEN, script, pc, nrec, ri, record,
                   has_ptif, record_success, log, tally, exitCode>>

\* for pdf_filename in pdf_filenames: page_count = 1
MmPdf ==
    /\ script = "modify_manifest"
    /\ \/ pc = "canvases" /\ fi = Len(PtifFiles(disk)) /\ fi' = 0
       \/ pc = "pdfs" /\ fi < Len(PdfFilenames(disk)) /\ fi' = fi
    /\ IF Len(PdfFilenames(disk)) > fi'
         THEN pc' = "pages" /\ page_count' = 1
         ELSE pc' = "pdfs" /\ UNCHANGED page_count
    /\ UNCHANGED <<page_num, diskPages, page_files, webVars, script, nrec, ri, record,
                   has_ptif, record_success, log, tally, raised, caught, exitCode>>

\* break: the `while True` loop over the page files of a PDF is left
MmBreak ==
    /\ fi' = fi + 1
    /\ pc' = "pdfs"
    /\ page_count' = 0

\* one iteration of the `while True` loop: the page file is looked up in the
\* directory of the first file's prefix
MmPage ==
    /\ script = "modify_manifest"
    /\ pc = "pages"
    /\ LET page_ptif_filename == PagePtifKey(PdfFilenames(disk)[fi + 1], page_count)
           pattern_prefix == PtifFiles(disk)[1].dir_pattern
       IN  IF page_ptif_filename \in SeqSet(disk[pattern_prefix])
             THEN \/ /\ canvases' = Append(canvases, CanvasId(page_ptif_filename))
                     /\ page_count' = page_count + 1
                     /\ UNCHANGED <<fi, pc, raised, caught>>
                  \/ /\ raised' = raised + 1
                     /\ caught' = caught + 1
                     /\ MmBreak
                     /\ UNCHANGED canvases
             ELSE /\ MmBreak
                  /\ UNCHANGED <<canvases, raised, caught>>
    /\ UNCHANGED <<page_num, diskPages, page_files, image_files, disk, PREVIEWER_PREFERENCE, AUTH_TOKEN, script, nrec,
                   ri, record, has_ptif, record_success, log, tally, exitCode>>

\* manifest["sequences"][0]["canvases"] = canvases; json.dump to
\* updated_manifest_<record_id>.json
MmWrite ==
    /\ script = "modify_manifest"
    /\ pc = "pdfs"
    /\ fi = Len(PdfFilenames(disk))
    /\ MmEndIteration
    /\ UNCHANGED <<page_num, diskPages, page_files, image_files, PREVIEWER_PREFERENCE, AUTH_TOKEN, script, nrec, ri,
                   record_success, tally, raised, caught, exitCode>>

MmDone ==
    /\ script = "modify_manifest"
    /\ pc \in {"start", "loop"}
    /\ ri = nrec
    /\ pc' = "done"
    /\ exitCode' = 0
    /\ UNCHANGED <<pdfVars, webVars, script, nrec, ri, record, fi, has_ptif, record_success,
                   log, tally, raised, caught>>

(* -------------------------- check_pdf_ptif_files ----------------------- *)

\* for record_model in records: try: get_record; the enabled test; an
\* exception is printed
ClLoad ==
    /\ script = "check_pdf_ptif_files"
    /\ pc \in {"start", "loop"}
    /\ ri < nrec
    /\ ri' = ri + 1
    /\ fi' = 0
    /\ \/ /\ record' = NoRecord
          /\ raised' = raised + 1
          /\ caught' = caught + 1
          /\ pc' = "loop"
          /\ UNCHANGED tally
       \/ \E r \in FileShapes :
            /\ UNCHANGED <<raised, caught>>
            /\ IF r.enabled
                 THEN /\ record' = r
                      /\ tally' = Inc("records_with_media_files")
                      /\ pc' = "files"
                 ELSE /\ record' = NoRecord
                      /\ UNCHANGED tally
                      /\ pc' = "loop"
    /\ UNCHANGED <<pdfVars, webVars, script, nrec, has_ptif, record_success, log, exitCode>>

\* a check that repaired what it found
ClFix(ptif_filename) == record' = [record EXCEPT !.media[ptif_filename] = "finished"]

\* ptif_file = record.media_files[ptif_filename]; its status and its path
\* are read and printed
ClRead(ptif_filename) == UNCHANGED record

\* for filename in record.files: the .pdf test, the media_files test and
\* the tally of the status; after the last file the record is left
ClFile ==
    /\ script = "check_pdf_ptif_files"
    /\ pc = "files"
    /\ IF fi < Len(record.files)
         THEN LET filename == record.files[fi + 1]
                  ptif_filename == PtifKey(filename)
              IN  /\ fi' = fi + 1
                  /\ UNCHANGED <<pc, has_ptif, log>>
                  /\ IF ~IsPdf(filename)
                       THEN UNCHANGED <<record, tally>>
                     ELSE IF ptif_filename \in DOMAIN record.media
                       THEN /\ ClRead(ptif_filename)
                            /\ tally' = [tally EXCEPT
                                 !["pdf_records"] = @ + 1,
                                 !["pdf_with_ptif"] = @ + 1,
                                 !["ptif_init_status"] =
                                     IF record.media[ptif_filename] = "init" THEN @ + 1 ELSE @,
                                 !["ptif_processing_status"] =
                                     IF record.media[ptif_filename] = "processing" THEN @ + 1 ELSE @,
                                 !["ptif_finished_status"] =
                                     IF record.media[ptif_filename] = "finished" THEN @ + 1 ELSE @]
                       ELSE /\ tally' = [tally EXCEPT
                                 !["pdf_records"] = @ + 1,
                                 !["pdf_without_ptif"] = @ + 1]
                            /\ UNCHANGED record
         ELSE EndIteration /\ UNCHANGED tally
    /\ UNCHANGED <<pdfVars, webVars, script, nrec, ri, record_success, raised, caught, exitCode>>

\* the summary is printed
ClDone ==
    /\ script = "check_pdf_ptif_files"
    /\ pc \in {"start", "loop"}
    /\ ri = nrec
    /\ pc' = "done"
    /\ exitCode' = 0
    /\ UNCHANGED <<pdfVars, webVars, script, nrec, ri, record, fi, has_ptif, record_success,
                   log, tally, raised, caught>>

(* ---------------------------- update_previewers ----------------------- *)

\* invenio_previewer.config.PREVIEWER_PREFERENCE of the installed library
BasePreferences ==
    { <<"csv_dthreejs", "simple_image", "pdfjs", "zip">>,
      <<"pdfjs", "simple_image">>,
      <<"simple_image", "zip">>,
      <<"zip">>,
      << >> }

\* the list ZenodoPreviewerExt.configure_iiif assigns
ZenodoPreference ==
    <<"zenodo_image", "image_previewer", "pdfjs", "simple_image", "xml_json",
      "json_prismjs", "simple_text", "csv_dthreejs", "zip">>

\* the list update_previewers assigns
UpdatedPreference ==
    <<"zenodo_image", "pdfjs", "simple_image", "zip", "csv_dthreejs",
      "json_prismjs", "simple_text", "xml_json">>

\* preference of IIIFPreviewerExt.init_config: 'iiif' goes in front of the
\* first 'pdfjs', or to the end when there is none
IiifPreference(base) ==
    IF "pdfjs" \in SeqSet(base)
      THEN LET pdfjs_idx == CHOOSE i \in 1..Len(base) :
                              base[i] = "pdfjs" /\ \A j \in 1..(i - 1) : base[j] # "pdfjs"
           IN  SubSeq(base, 1, pdfjs_idx - 1) \o <<"iiif">> \o SubSeq(base, pdfjs_idx, Len(base))
      ELSE Append(base, "iiif")

\* the extensions create_app has initialised
Applied(ext) == \E i \in 1..Len(log) : log[i].op = ext

\* app = create_app(): ZenodoRDM.init_app builds ZenodoPreviewerExt, whose
\* configure_iiif assigns the list; the entry points of the two packages
\* are loaded in no fixed order
UpZenodo ==
    /\ script = "update_previewers"
    /\ pc = "start"
    /\ ~Applied("ZenodoRDM.init_app")
    /\ PREVIEWER_PREFERENCE' = ZenodoPreference
    /\ log' = Append(log, Ev("ZenodoRDM.init_app", << >>, TRUE))
    /\ pc' = IF Applied("IIIFPreviewerExt.init_app") THEN "app" ELSE "start"
    /\ UNCHANGED <<pdfVars, image_files, disk, canvases, AUTH_TOKEN, script, nrec, ri, record, fi,
                   has_ptif, record_success, tally, raised, caught, exitCode>>

\* app = create_app(): IIIFPreviewerExt.init_app calls init_config, which
\* assigns the list made from the library's
UpIiif ==
    /\ script = "update_previewers"
    /\ pc = "start"
    /\ ~Applied("IIIFPreviewerExt.init_app")
    /\ \E base \in BasePreferences :
         /\ PREVIEWER_PREFERENCE' = IiifPreference(base)
         /\ log' = Append(log, Ev("IIIFPreviewerExt.init_app", base, TRUE))
    /\ pc' = IF Applied("ZenodoRDM.init_app") THEN "app" ELSE "start"
    /\ UNCHANGED <<pdfVars, image_files, disk, canvases, AUTH_TOKEN, script, nrec, ri, record, fi,
                   has_ptif, record_success, tally, raised, caught, exitCode>>

\* the script body: the previewers are registered (entry_point.load() can
\* raise, and nothing catches it) and the list is assigned
UpUpdate ==
    /\ script = "update_previewers"
    /\ pc = "app"
    /\ \/ /\ PREVIEWER_PREFERENCE' = UpdatedPreference
          /\ pc' = "done"
          /\ exitCode' = 0
          /\ UNCHANGED raised
       \/ /\ raised' = raised + 1
          /\ pc' = "aborted"
          /\ exitCode' = 1
          /\ UNCHANGED PREVIEWER_PREFERENCE
    /\ UNCHANGED <<pdfVars, image_files, disk, canvases, AUTH_TOKEN, script, nrec, ri, record, fi,
                   has_ptif, record_success, log, tally, caught>>

(* ------------------------------ test_browser_ui ------------------------ *)

\* the two copies of the script
BrowserUiScripts == {"tests/iiif/test_browser_ui", "site/tests/iiif/test_browser_ui"}

WebUrlsToTry(s) ==
    IF s = "tests/iiif/test_browser_ui"
      THEN <<"https://127.0.0.1:5000", "https://localhost:5000", "http://localhost:5000",
             "http://127.0.0.1:5000", "http://localhost:443", "http://localhost:80">>
      ELSE <<"http://localhost:5000", "http://127.0.0.1:5000">>

\* whether the loop body goes on after a response: the copy of tests/iiif
\* sets success from the status code and tests it, the copy of
\* site/tests/iiif only prints the status code
TwGoesOn(s, status200) == IF s = "tests/iiif/test_browser_ui" THEN status200 ELSE TRUE

\* one requests.get of the loop body: the home page, the record page or the
\* manifest of the current base URL; a RequestException is printed and the
\* next base URL is tried; after the manifest the function returns True
TwRequest ==
    /\ script \in BrowserUiScripts
    /\ pc \in {"start", "record", "manifest"}
    /\ fi < Len(WebUrlsToTry(script))
    /\ LET base_url == WebUrlsToTry(script)[fi + 1]
           page == IF pc = "start" THEN "home" ELSE pc
           NextUrl == fi' = fi + 1 /\ pc' = "start" /\ log' = << >> /\ UNCHANGED exitCode
       IN  \/ /\ raised' = raised + 1
              /\ caught' = caught + 1
              /\ NextUrl
           \/ \E status200 \in BOOLEAN :
                /\ UNCHANGED <<raised, caught>>
                /\ IF ~TwGoesOn(script, status200)
                     THEN NextUrl
                   ELSE /\ log' = Append(log, Ev("requests.get", <<base_url, page>>, status200))
                        /\ UNCHANGED fi
                        /\ IF page = "manifest"
                             THEN pc' = "done" /\ exitCode' = 0
                             ELSE /\ pc' = (IF page = "home" THEN "record" ELSE "manifest")
                                  /\ UNCHANGED exitCode
    /\ UNCHANGED <<pdfVars, webVars, script, nrec, ri, record, has_ptif, record_success, tally>>

\* no base URL is left: return False, sys.exit(1)
TwExhausted ==
    /\ script \in BrowserUiScripts
    /\ pc = "start"
    /\ fi = Len(WebUrlsToTry(script))
    /\ pc' = "done"
    /\ exitCode' = 1
    /\ UNCHANGED <<pdfVars, webVars, script, nrec, ri, record, fi, has_ptif, record_success,
                   log, tally, raised, caught>>

(* ------------------ test_simple_iipserver, test_core_services ---------- *)

\* the checks run_tests makes, in order; test_simple_iipserver makes the
\* third one only after the two first succeeded
SmokeChecks(s) ==
    IF s = "test_simple_iipserver"
      THEN <<"test_iipserver_running", "test_fcgi_endpoint", "test_test_image">>
      ELSE <<"test_iipserver_running", "test_web_running">>

\* run_tests: one check function is called; each of them catches the
\* exceptions of its request and returns True or False
SmCheck ==
    /\ script \in {"test_simple_iipserver", "test_core_services"}
    /\ pc = "start"
    /\ \/ Len(log) < 2
       \/ script = "test_simple_iipserver" /\ Len(log) = 2 /\ log[1].ok /\ log[2].ok
    /\ \E ok \in BOOLEAN :
         log' = Append(log, Ev(SmokeChecks(script)[Len(log) + 1], << >>, ok))
    /\ UNCHANGED <<pdfVars, webVars, script, pc, nrec, ri, record, fi, has_ptif,
                   record_success, tally, raised, caught, exitCode>>

\* a run_tests that wants every check it made to have succeeded
RunTestsStrict(first, second) == IF \A i \in 1..Len(log) : log[i].ok THEN 0 ELSE 1

\* return 0 if server_running and fcgi_available else 1; and
\* if iipserver_running and web_running: return 0, else: return 1
RunTestsResult(first, second) == IF first /\ second THEN 0 ELSE 1

\* the summary is printed and sys.exit gets what run_tests returns
SmReturn ==
    /\ script \in {"test_simple_iipserver", "test_core_services"}
    /\ pc = "start"
    /\ Len(log) >= 2
    /\ script = "test_simple_iipserver" => Len(log) = 3 \/ ~(log[1].ok /\ log[2].ok)
    /\ pc' = "done"
    /\ exitCode' = RunTestsResult(log[1].ok, log[2].ok)
    /\ UNCHANGED <<pdfVars, webVars, script, nrec, ri, record, fi, has_ptif, record_success,
                   log, tally, raised, caught>>

(* ---------------------- test_authenticated_manifest -------------------- *)

\* test_authenticated_manifest_access: the value it returns. Without a token
\* it returns the bare False; after the request it returns the pair
\* (True, filename) for a manifest with canvases and the pair (False, None)
\* for every other answer and for an exception of the request. pair tells a
\* 2-tuple from a bare value; << >> is a filename that is None or empty.
TestAuthenticatedManifestAccess(token, canvases_found, filename) ==
    IF token = ""
      THEN [pair |-> FALSE, success |-> FALSE, filename |-> << >>]
    ELSE IF canvases_found
      THEN [pair |-> TRUE, success |-> TRUE, filename |-> filename]
      ELSE [pair |-> TRUE, success |-> FALSE, filename |-> << >>]

\* the recommendation run_all_tests prints after the summary
Recommendation(token, success, image_success) ==
    IF token = "" THEN "provide AUTH_TOKEN"
    ELSE IF ~success THEN "check token and record"
    ELSE IF ~image_success THEN "check PTIF conversion and IIPServer"
    ELSE "all tests passed"

\* success, filename = test_authenticated_manifest_access(): a value that is
\* not a pair cannot be unpacked, the TypeError is caught nowhere and ends
\* the script; if success and filename: the image test is next
AmManifest ==
    /\ script = "test_authenticated_manifest"
    /\ pc = "start"
    /\ \E canvases_found \in BOOLEAN, filename \in {<< >>, ImgJpg} :
         LET result == TestAuthenticatedManifestAccess(AUTH_TOKEN, canvases_found, filename)
         IN  IF ~result.pair
               THEN /\ raised' = raised + 1
                    /\ pc' = "aborted"
                    /\ exitCode' = 1
                    /\ UNCHANGED log
               ELSE /\ log' = Append(log, Ev("test_authenticated_manifest_access",
                                             result.filename, result.success))
                    /\ pc' = IF result.success /\ result.filename # << >>
                               THEN "image" ELSE "summary"
                    /\ UNCHANGED <<raised, exitCode>>
    /\ UNCHANGED <<pdfVars, webVars, script, nrec, ri, record, fi, has_ptif, record_success,
                   tally, caught>>

\* image_success = test_authenticated_image_access(filename): it catches the
\* exceptions of its requests and returns True or False
AmImage ==
    /\ script = "test_authenticated_manifest"
    /\ pc = "image"
    /\ \E ok \in BOOLEAN :
         log' = Append(log, Ev("test_authenticated_image_access", log[1].arg, ok))
    /\ pc' = "summary"
    /\ UNCHANGED <<pdfVars, webVars, script, nrec, ri, record, fi, has_ptif, record_success,
                   tally, raised, caught, exitCode>>

\* the summary and the recommendation are printed; image_success is False
\* when the image test was not made
AmSummary ==
    /\ script = "test_authenticated_manifest"
    /\ pc = "summary"
    /\ LET success == log[1].ok
           image_success == Len(log) = 2 /\ log[2].ok
       IN  log' = log \o <<Ev("print", <<"Manifest Access">>, success),
                           Ev("print", <<"Image Access">>, image_success),
                           Ev("print", <<Recommendation(AUTH_TOKEN, success, image_success)>>,
                              TRUE)>>
    /\ pc' = "done"
    /\ exitCode' = 0
    /\ UNCHANGED <<pdfVars, webVars, script, nrec, ri, record, fi, has_ptif, record_success,
                   tally, raised, caught>>

(* ------------------------------ register_ptif ------------------------- *)

Digits == <<"0", "1", "2", "3", "4", "5", "6", "7", "8", "9">>

\* int(s) is defined for a non-empty string of digits and raises ValueError
\* for the other strings an identifier can start with
IsNumeric(chars) == chars # << >> /\ \A i \in 1..Len(chars) : chars[i] \in SeqSet(Digits)

RECURSIVE IntOf(_)
IntOf(chars) ==
    IF chars = << >> THEN 0
    ELSE 10 * IntOf(SubSeq(chars, 1, Len(chars) - 1))
           + ((CHOOSE d \in 1..10 : Digits[d] = chars[Len(chars)]) - 1)

\* the directory find_ptif_files looks in first, relative to IIIF_DIR:
\* record_id[:2] / (record_id[2:] + "_/_")
FindPtifDir(record_id) ==
    <<Str(Slice(record_id, 0, 2)), Str(Slice(record_id, 2, Len(record_id))) \o "_", "_">>

\* the alternative directory: the prefix is str(int(record_prefix) - 1),
\* with a "0" in front when that is one character
AltPtifDir(record_id) ==
    LET n == IntOf(Slice(record_id, 0, 2)) - 1
        alt_prefix == IF n \in 0..9 THEN "0" \o ToString(n) ELSE ToString(n)
    IN  <<alt_prefix, Str(Slice(record_id, 2, Len(record_id))) \o "_", "_">>

\* iiif_path of a PTIF file: dir_parts are the directories of its path
\* relative to IIIF_DIR
IiifPath(record_id, ptif_path) ==
    LET filename == ptif_path.name
        dir_parts == ptif_path.dir
    IN  IF Len(dir_parts) >= 2
          THEN <<"api", "iiif", dir_parts[1], dir_parts[2]>> \o filename
          ELSE <<"api", "iiif", Str(Slice(record_id, 0, 2)),
                 Str(Slice(record_id, 2, Len(record_id))) \o "_", "_">> \o filename

\* the canvas of a PTIF file
Canvas(record_id, ptif_path, width, height) ==
    LET filename == ptif_path.name
        iiif_path == IiifPath(record_id, ptif_path)
    IN  [ id |-> CanvasId(filename),
          type |-> "sc:Canvas",
          label |-> <<"Page from">> \o filename,
          width |-> width,
          height |-> height,
          images |-> <<
            [ id |-> CanvasId(filename) \o <<"image">>,
              type |-> "oa:Annotation",
              motivation |-> "sc:painting",
              resource |->
                [ id |-> iiif_path \o <<"full", "full", "0", "default.jpg">>,
                  type |-> "dctypes:Image",
                  format |-> "image/jpeg",
                  width |-> width,
                  height |-> height,
                  service |->
                    [ id |-> iiif_path,
                      context |-> "http://iiif.io/api/image/2/context.json",
                      profile |-> "http://iiif.io/api/image/2/level1.json" ] ],
              on |-> CanvasId(filename) ] >> ]

\* the manifest create_manifest returns when its loop has built cs
Manifest(record_id, cs) ==
    [ context |-> "http://iiif.io/api/presentation/2/context.json",
      type |-> "sc:Manifest",
      id |-> <<"record:" \o Str(record_id), "manifest">>,
      label |-> "PDF Document",
      sequences |-> <<
        [ id |-> <<"record:" \o Str(record_id), "sequence", "default">>,
          type |-> "sc:Sequence",
          canvases |-> cs ] >> ]

\* main: parse_args and find_ptif_files, which globs the two directories;
\* int() of a prefix that is no number raises, and nothing catches it.
\* With no file found main returns.
RmFind ==
    /\ script = "register_ptif"
    /\ pc = "start"
    /\ \E record_id \in RecordIds :
         /\ record' = [NoRecord EXCEPT !.id = record_id]
         /\ IF ~IsNumeric(Slice(record_id, 0, 2))
              THEN /\ raised' = raised + 1
                   /\ pc' = "aborted"
                   /\ exitCode' = 1
                   /\ UNCHANGED image_files
              ELSE \E l1 \in {<< >>, <<PtifKey(PdfDoc)>>, PageFiles(PdfDoc, 1) \o <<PtifKey(PdfDoc)>>},
                      l2 \in Listings20 :
                     /\ image_files' =
                          [i \in 1..Len(l1) |-> [dir |-> FindPtifDir(record_id), name |-> l1[i]]]
                            \o [i \in 1..Len(l2) |-> [dir |-> AltPtifDir(record_id), name |-> l2[i]]]
                     /\ IF image_files' = << >>
                          THEN pc' = "done" /\ exitCode' = 0
                          ELSE pc' = "canvases" /\ UNCHANGED exitCode
                     /\ UNCHANGED raised
    /\ UNCHANGED <<pdfVars, disk, canvases, PREVIEWER_PREFERENCE, AUTH_TOKEN, script, nrec, ri, fi, has_ptif,
                   record_success, log, tally, caught>>

\* create_manifest without canvases.append: a file gets no canvas
RmSkip(canvas) == UNCHANGED canvases

\* canvases.append(canvas)
RmAppend(canvas) == canvases' = Append(canvases, canvas)

\* for ptif_path in ptif_files: vips header gives the dimensions; a
\* CalledProcessError of either call gives 1200 x 1800; any other exception
\* (int() of the output, vips not installed) ends the script
RmCanvas ==
    /\ script = "register_ptif"
    /\ pc = "canvases"
    /\ fi < Len(image_files)
    /\ \/ /\ \E dims \in {<<800, 600>>, <<600, 800>>} :
               RmAppend(Canvas(record.id, image_files[fi + 1], dims[1], dims[2]))
          /\ fi' = fi + 1
          /\ UNCHANGED <<pc, raised, exitCode>>
       \/ /\ RmAppend(Canvas(record.id, image_files[fi + 1], 1200, 1800))
          /\ fi' = fi + 1
          /\ UNCHANGED <<pc, raised, exitCode>>
       \/ /\ raised' = raised + 1
          /\ pc' = "aborted"
          /\ exitCode' = 1
          /\ UNCHANGED <<fi, canvases>>
    /\ UNCHANGED <<pdfVars, image_files, disk, PREVIEWER_PREFERENCE, AUTH_TOKEN, script, nrec, ri, record, has_ptif,
                   record_success, log, tally, caught>>

\* return manifest; save_manifest writes manifest_<record_id>.json and
\* inject_manifest.js, where open() and write() can raise
RmSave ==
    /\ script = "register_ptif"
    /\ pc = "canvases"
    /\ fi = Len(image_files)
    /\ \/ pc' = "done" /\ exitCode' = 0 /\ UNCHANGED raised
       \/ pc' = "aborted" /\ exitCode' = 1 /\ raised' = raised + 1
    /\ UNCHANGED <<pdfVars, webVars, script, nrec, ri, record, fi, has_ptif,
                   record_success, log, tally, caught>>

Next ==
    \/ FixLoad \/ FixFile \/ FixCommit \/ FixDone
    \/ CheckLoad \/ CheckFile \/ CheckDone
    \/ GenStart \/ GenLoad \/ GenFile \/ GenCommit \/ GenDone
    \/ FpStart \/ FpLoad \/ FpFile \/ FpCommit \/ FpDone
    \/ CsLoad \/ CsFile \/ CsPdfload \/ CsTiffsave \/ CsVerify \/ CsCreate \/ CsAdd
    \/ CsCleanup \/ CsEndRecord \/ CsDone
    \/ RgStart \/ RgLoad \/ RgFile \/ RgPdfload \/ RgVerify \/ RgRegister
    \/ RgEndRecord \/ RgDone
    \/ MnStart \/ MnLoad \/ MnFile \/ MnPdfload \/ MnTiffsave \/ MnVerify
    \/ MnEndRecord \/ MnDone
    \/ MpStart \/ MpLoad \/ MpFile \/ MpPdfload \/ MpTiffsave \/ MpVerify
    \/ MpNextFile \/ MpEndRecord \/ MpDone
    \/ RpLoad \/ RpFile \/ RpRegister \/ RpPage \/ RpEndRecord \/ RpDone
    \/ BcStart \/ BcGet \/ BcDownload \/ BcConvert \/ BcCopy \/ BcSummary \/ BcExit
    \/ CeStart \/ CeRecord \/ CeSummary \/ CeExit
    \/ SvServe \/ SvRequest \/ SvHandle \/ SvInterrupt
    \/ MmLoad \/ MmCanvas \/ MmPdf \/ MmPage \/ MmWrite \/ MmDone
    \/ RmFind \/ RmCanvas \/ RmSave
    \/ ClLoad \/ ClFile \/ ClDone
    \/ UpZenodo \/ UpIiif \/ UpUpdate
    \/ TwRequest \/ TwExhausted
    \/ SmCheck \/ SmReturn
    \/ AmManifest \/ AmImage \/ AmSummary

Spec == Init /\ [][Next]_vars

\* A script is a sequential program that the interpreter keeps running;
\* inside httpd.serve_forever() the next step is the client's or the
\* user's, and nothing obliges them to take it.
ProgramStep == pc # "serving" /\ Next

FairSpec == Init /\ [][Next]_vars /\ WF_vars(ProgramStep)


(* ------------------------------- claims -------------------------------- *)

\* the calls of the current file's log with operation op
Calls(op) == {i \in 1..Len(log) : log[i].op = op}

\* a successful call of op on arg before position i of the log
DoneBefore(op, arg, i) ==
    \E j \in 1..(i - 1) : log[j].op = op /\ log[j].arg = arg /\ log[j].ok

\* the database writes that concern a PTIF
DbWrites == {"media_files.delete", "ObjectVersion.create", "media_files.add"}

PdfToPtifScripts == {"create_simple_ptif", "regenerate_pdf_ptif"}

\* C1 as stated: in every script that turns a PDF into a registered PTIF,
\* each database write concerning the PTIF (media_files add/delete,
\* ObjectVersion create) comes after a successful vips pdfload and a
\* successful vips tiffsave of that PDF.
C1_WritesAfterBothTools ==
    script \in PdfToPtifScripts =>
      \A i \in 1..Len(log) :
        log[i].op \in DbWrites =>
          \E j \in 1..(i - 1), k \in 1..(i - 1) :
            /\ j < k
            /\ log[j].op = "vips pdfload" /\ log[j].ok
            /\ log[k].op = "vips tiffsave" /\ log[k].ok

\* C1 amended: create_simple_ptif writes to the database only after vips
\* pdfload and then vips tiffsave have both succeeded; regenerate_pdf_ptif
\* never runs vips tiffsave, deletes the media_files entry before its single
\* vips pdfload, and creates the ObjectVersion / adds the media_files entry
\* only after vips pdfload succeeded and the output file was found.
C1_WritesAfterConversion ==
    /\ script = "create_simple_ptif" =>
         \A i \in 1..Len(log) :
           log[i].op \in DbWrites =>
             \E j \in 1..(i - 1), k \in 1..(i - 1) :
               /\ j < k
               /\ log[j].op = "vips pdfload" /\ log[j].ok
               /\ log[k].op = "vips tiffsave" /\ log[k].ok
    /\ script = "regenerate_pdf_ptif" =>
         /\ Calls("vips tiffsave") = {}
         /\ \A i \in 1..Len(log) :
              /\ log[i].op = "media_files.delete" => i = 1
              /\ log[i].op = "vips pdfload" => i > 1 /\ log[1].op = "media_files.delete"
              /\ log[i].op \in {"ObjectVersion.create", "media_files.add"} =>
                   \E j \in 1..(i - 1), k \in 1..(i - 1) :
                     /\ j < k
                     /\ log[j].op = "vips pdfload" /\ log[j].ok
                     /\ log[k].op = "os.path.exists" /\ log[k].ok

\* create_simple_ptif has registered the PTIF of a PDF
C1_Witness ==
    /\ script = "create_simple_ptif"
    /\ \E i \in 1..Len(log) : log[i].op = "media_files.add" /\ log[i].ok

ManualScripts == {"create_pdf_ptif_manual", "create_pdf_multipage_ptif"}

\* the conversion steps of the two scripts: a call is made for the current
\* file (page) and recorded last in its log
C2_ConversionStep == log' # log /\ log' # << >>

\* the loop has moved on to the next file (next page in the multipage script)
C2_MovedOn ==
    IF script = "create_pdf_ptif_manual"
      THEN pc' = "files" /\ fi' = fi + 1
      ELSE pc' = "page" /\ page_num' = page_num + 1 /\ fi' = fi

C2_Step ==
    (   script \in ManualScripts =>
          /\ \A i \in 1..Len(log') :
               log'[i].op = "vips tiffsave" =>
                 \E j \in 1..(i - 1) : /\ log'[j].op = "vips pdfload"
                                       /\ log'[j].arg = log'[i].arg
                                       /\ log'[j].ok
          /\ tally'["ptif_files_created"] # tally["ptif_files_created"] =>
               /\ C2_ConversionStep
               /\ LET e == log'[Len(log')]
                  IN  /\ e.op = "os.path.exists" /\ e.ok
                      /\ \E j \in 1..Len(log), k \in 1..Len(log) :
                           /\ j < k
                           /\ SubSeq(log', 1, Len(log)) = log
                           /\ log[j].op = "vips pdfload" /\ log[j].ok
                           /\ log[k].op = "vips tiffsave" /\ log[k].ok
                           /\ PtifKey(log[j].arg) = e.arg \/ log[j].arg = e.arg
                           /\ log[k].arg = log[j].arg
          /\ C2_ConversionStep =>
               LET e == log'[Len(log')]
               IN  IF e.ok /\ e.op # "os.path.exists"
                     THEN /\ tally' = tally
                          /\ <<ri, fi, page_num>>' = <<ri, fi, page_num>>
                   ELSE IF e.ok
                     THEN /\ tally' = Inc("ptif_files_created")
                          /\ C2_MovedOn
                   ELSE /\ tally' = Inc("errors")
                        /\ C2_MovedOn
    )

NewlyFinished ==
    IF ri' = ri /\ record' # NoRecord
      THEN {k \in PtifKeys(record') :
              /\ record'.media[k] = "finished"
              /\ (k \in DOMAIN record.media => record.media[k] # "finished")}
      ELSE {}

\* the file of key k has been looked up on disk and found
CheckedOnDisk(k) ==
    \E i \in 1..Len(log') : log'[i].op = "os.path.exists" /\ log'[i].arg = k /\ log'[i].ok

C3_Step == \A k \in NewlyFinished : CheckedOnDisk(k)

\* C3 as stated: whenever a script registers a .ptif key in a record's
\* media files or sets a .ptif media file to 'finished', it has first
\* checked that the PTIF file exists on disk.
C3_ExistenceChecked ==
    [][C3_Step]_vars

RegisteringScripts == {"create_simple_ptif", "register_pdf_ptif", "regenerate_pdf_ptif"}

C3_RegisteringStep == script \in RegisteringScripts => C3_Step

\* C3 amended: create_simple_ptif, register_pdf_ptif and regenerate_pdf_ptif
\* register a .ptif key (status 'finished') only after they have found the
\* PTIF file on disk; fix_ptif_status and generate_missing_tiles set the
\* status without such a check.
C3_RegistrationChecked ==
    [][C3_RegisteringStep]_vars

\* register_pdf_ptif has registered a PTIF and one of its page files
C3_Witness ==
    /\ script = "register_pdf_ptif"
    /\ tally["ptif_files_registered"] >= 2
    /\ \E k \in PtifKeys(record) : record.media[k] = "finished"

\* the scripts whose main loop goes over records
RecordLoopScripts ==
    { "fix_ptif_status", "check_media_files", "generate_missing_tiles",
      "fix_process_iiif_tiles", "create_simple_ptif", "regenerate_pdf_ptif",
      "create_pdf_ptif_manual", "create_pdf_multipage_ptif", "register_pdf_ptif",
      "convert_existing_records", "modify_manifest", "check_pdf_ptif_files" }

\* C4 as stated: in every script that loops over records an exception
\* raised for one record is caught and printed and the loop goes on: no
\* record loop is ever left by an exception.
C4_NoLoopAborts ==
    script \in RecordLoopScripts =>
      /\ pc # "aborted"
      /\ raised = caught

\* C4 amended: in every script that loops over records except
\* check_media_files, an exception raised for one record is caught and
\* printed and the later records are still processed; check_media_files
\* has no handler and ends at the first exception.
C4_HandledLoops ==
    /\ script \in RecordLoopScripts \ {"check_media_files"} =>
         /\ pc # "aborted"
         /\ raised = caught
         /\ (pc = "done" /\ raised > 0) => ri = nrec
    /\ script = "check_media_files" =>
         /\ caught = 0
         /\ raised > 0 <=> pc = "aborted"

\* fix_ptif_status works on a record after an exception for an earlier one
C4_Witness ==
    /\ script = "fix_ptif_status"
    /\ raised >= 1
    /\ pc = "files"

\* the media files a step of the loop over media_files.keys() changes
C5_Changed ==
    {k \in DOMAIN record.media \cup DOMAIN record'.media :
       \/ k \notin DOMAIN record.media
       \/ k \notin DOMAIN record'.media
       \/ record'.media[k] # record.media[k]}

C5_Step ==
    (   script = "fix_ptif_status" =>
          IF pc = "files" /\ pc' = "files"
            THEN /\ record.enabled
                 /\ \A k \in C5_Changed :
                      /\ k \in DOMAIN record.media /\ k \in DOMAIN record'.media
                      /\ EndsWith(k, PTIF)
                      /\ record.media[k] = "init"
                      /\ record'.media[k] = "finished"
                 /\ tally'["ptif_files_fixed"] = tally["ptif_files_fixed"] + Cardinality(C5_Changed)
            ELSE /\ tally'["ptif_files_fixed"] = tally["ptif_files_fixed"]
                 /\ pc' = "files" => record'.enabled
    )

C6_AllPtifFinished ==
    (script = "fix_ptif_status" /\ pc = "files" /\ fi = Len(MediaKeys(record))) =>
      \A k \in PtifKeys(record) : record.media[k] = "finished"

TileCalls == {"generate_tiles", "converter.convert"}

\* C9 as stated: an operation that has failed is never attempted again: no
\* tile generation is called for a file whose generation has failed.
C9_FailedNeverAttempted ==
    \A i \in 1..Len(log) : log[i].op \in TileCalls => log[i].prior # "failed"

\* C9 amended: within a run no script calls the same operation on the same
\* file twice (no retry loop); fix_process_iiif_tiles does call
\* generate_tiles again for files whose .ptif status is 'failed' (and for
\* files without .ptif), generate_missing_tiles converts again every file
\* whose .ptif status is not 'finished'.
C9_NoRetryWithinRun ==
    /\ \A i \in 1..Len(log), j \in 1..Len(log) :
         (i # j /\ log[i].op = log[j].op) => log[i].arg # log[j].arg
    /\ \A i \in 1..Len(log) :
         log[i].op \in TileCalls =>
           IF script = "fix_process_iiif_tiles"
             THEN log[i].prior \in {"failed", "absent"}
             ELSE log[i].prior # "finished"

\* fix_process_iiif_tiles has called generate_tiles for a 'failed' file
C9_Witness ==
    /\ script = "fix_process_iiif_tiles"
    /\ \E i \in 1..Len(log) : log[i].op = "generate_tiles" /\ log[i].prior = "failed"

\* C7: in batch_convert and in process_records of convert_existing_records
\* every item is counted exactly once: when the summary line is printed,
\* successes plus failures equal the number of image files (record ids)
\* given to the loop, and inside the loop they equal the items taken.
C7_TallyComplete ==
    /\ script = "batch_convert" =>
         /\ pc = "download" => tally["success_count"] + tally["failed_count"] = fi
         /\ pc = "summary" =>
              tally["success_count"] + tally["failed_count"] = Len(image_files)
    /\ script = "convert_existing_records" =>
         /\ pc = "loop" => tally["success"] + tally["failure"] = ri
         /\ pc = "summary" => tally["success"] + tally["failure"] = nrec

\* batch_convert prints a summary with successes and failures
C7_Witness ==
    /\ script = "batch_convert"
    /\ pc = "summary"
    /\ tally["success_count"] >= 1
    /\ tally["failed_count"] >= 1

\* file f has been through op successfully
Passed(op, f) == \E i \in 1..Len(log) : log[i].op = op /\ log[i].arg = f /\ log[i].ok

\* C8: batch_convert exits 0 if and only if at least one image file was
\* downloaded, converted and copied, each step being run only after the
\* previous one succeeded; it exits 1 without a record id, when the record
\* cannot be fetched or has no image files, and when every file failed.
C8_ExitCode ==
    script = "batch_convert" =>
      /\ \A i \in 1..Len(log) :
           /\ log[i].op = "convert_to_ptif" => DoneBefore("download_file", log[i].arg, i)
           /\ log[i].op = "copy_to_iipserver" => DoneBefore("convert_to_ptif", log[i].arg, i)
      /\ pc = "done" <=> exitCode # -1
      /\ pc = "done" =>
           /\ exitCode \in {0, 1}
           /\ exitCode = 0 <=>
                \E f \in SeqSet(image_files) :
                  /\ Passed("download_file", f)
                  /\ Passed("convert_to_ptif", f)
                  /\ Passed("copy_to_iipserver", f)
           /\ (nrec = 0 \/ image_files = << >>) => exitCode = 1

\* batch_convert has exited 0 although a file failed
C8_Witness ==
    /\ script = "batch_convert"
    /\ pc = "done"
    /\ exitCode = 0
    /\ tally["failed_count"] >= 1

Final == {"done", "aborted"}

\* C10 as stated: every script, once started, runs to completion by
\* itself, the HTTP server script serve_viewer included.
C10_AllTerminate == <>(pc \in Final)

\* C10 amended: every script except serve_viewer runs to completion by
\* itself, the `while True` page loops of register_pdf_ptif and
\* modify_manifest ending at the first missing page file; serve_viewer
\* enters serve_forever and ends only when it is interrupted.
C10_ScriptsTerminate == <>(pc \in Final \/ (script = "serve_viewer" /\ pc = "serving"))

\* register_pdf_ptif has ended after its page loop registered a page file
C10_Witness ==
    /\ script = "register_pdf_ptif"
    /\ pc = "done"
    /\ tally["ptif_files_registered"] >= 2

\* the canvas has the members the manifest endpoint test asks for, one
\* annotation that is on the canvas itself, and a resource of its size
WellFormedCanvas(c) ==
    /\ c.type = "sc:Canvas"
    /\ {"id", "label", "width", "height", "images"} \subseteq DOMAIN c
    /\ Len(c.images) = 1
    /\ c.images[1].type = "oa:Annotation"
    /\ c.images[1].on = c.id
    /\ c.images[1].resource.width = c.width
    /\ c.images[1].resource.height = c.height
    /\ {"context", "id", "profile"} \subseteq DOMAIN c.images[1].resource.service

\* C11: the manifest register_ptif.create_manifest builds is an sc:Manifest
\* with exactly one sequence; the canvases built so far correspond one to one
\* and in order to the paths taken so far (all of them once the function has
\* returned), also when the dimensions could not be read (1200 x 1800); each
\* canvas is well formed.
C11_ManifestStructure ==
    (script = "register_ptif" /\ pc \in {"canvases", "done", "aborted"}) =>
        LET manifest == Manifest(record.id, canvases)
            cs == manifest.sequences[1].canvases
        IN  /\ manifest.type = "sc:Manifest"
            /\ Len(manifest.sequences) = 1
            /\ Len(cs) = fi
            /\ (pc = "done" => Len(cs) = Len(image_files))
            /\ \A i \in 1..Len(cs) :
                 /\ cs[i].id = CanvasId(image_files[i].name)
                 /\ cs[i].label = <<"Page from">> \o image_files[i].name
                 /\ cs[i].width > 0 /\ cs[i].height > 0
                 /\ WellFormedCanvas(cs[i])

\* a manifest of two files was returned and saved, the first file with the
\* dimensions vips reported and the second with the default ones
C11_Witness ==
    /\ script = "register_ptif"
    /\ pc = "done"
    /\ Len(image_files) = 2
    /\ Len(canvases) = 2
    /\ canvases[1].width = 800
    /\ canvases[2].width = 1200 /\ canvases[2].height = 1800

\* C19: register_ptif.create_manifest maps the PTIF stored at
\* <IIIF_DIR>/<a>/<b>/_/<file> to the IIIF service path
\* /api/iiif/<a>/<b>/_/<file>: the service '@id' of every canvas is
\* /api/iiif followed by the directories of the file and its name, which is
\* what modify_manifest and simple_pdf_viewer build
\* (/api/iiif/<pattern_prefix>/6_/_/<filename>).
C19_ServicePathKeepsDirectories ==
    script = "register_ptif" =>
        \A i \in 1..Len(canvases) :
            canvases[i].images[1].resource.service.id
                = <<"api", "iiif">> \o image_files[i].dir \o image_files[i].name

\* C12: create_multipage_pdf_ptif_files attempts to convert exactly the
\* pages 1..N of a PDF with N pages: when the page loop of a PDF is over, the
\* page files it has attempted (page p written to <filename>.page-<p>.ptif)
\* are the page files listed in the manifest's page_files, one per page.
C12_EveryPageAttempted ==
    ( /\ script = "create_pdf_multipage_ptif"
      /\ pc = "page"
      /\ page_num > MaxPagesToProcess(page_count) ) =>
        /\ Len(page_files) = page_count
        /\ {PagePtifKey(record.files[fi + 1], p) : p \in 1..(page_num - 1)}
             = SeqSet(page_files)

\* the scripts that announce they leave the records alone
ReadOnlyScripts == {"check_pdf_ptif_files", "create_pdf_ptif_manual", "create_pdf_multipage_ptif"}

C13_Step ==
    (script \in ReadOnlyScripts =>
        /\ \A i \in 1..Len(log') : log'[i].op \notin DbWrites
        /\ (record # NoRecord /\ record' # NoRecord => record' = record))

\* C13: check_pdf_ptif_files, create_pdf_ptif_manual and
\* create_pdf_multipage_ptif never modify a record: no step of theirs makes a
\* database write, a media_files add or delete or a commit, and the record an
\* iteration has loaded is the same record until the iteration leaves it.
C13_RecordsUntouched == [][C13_Step]_vars

\* one of the three scripts is at work on a loaded record after it handled
\* a PDF: the check has read a registered PTIF, the others created a file
C13_Witness ==
    /\ script \in ReadOnlyScripts
    /\ record # NoRecord
    /\ fi > 0
    /\ \/ script = "check_pdf_ptif_files" /\ tally["pdf_with_ptif"] > 0
       \/ script # "check_pdf_ptif_files" /\ tally["ptif_files_created"] > 0

\* position of the first occurrence of x in list, 0 when there is none
Index(list, x) ==
    IF x \in SeqSet(list)
      THEN CHOOSE i \in 1..Len(list) : list[i] = x /\ \A j \in 1..(i - 1) : list[j] # x
      ELSE 0

\* C15: after IIIFPreviewerExt.init_config, for any base preference list,
\* 'iiif' is in PREVIEWER_PREFERENCE at a position before 'pdfjs' and before
\* 'simple_image' (each when present), and the base entries keep their
\* relative order.
C15_IiifPreferred ==
    ( /\ script = "update_previewers"
      /\ log # << >>
      /\ log[Len(log)].op = "IIIFPreviewerExt.init_app" ) =>
        /\ Index(PREVIEWER_PREFERENCE, "iiif") > 0
        /\ \A p \in {"pdfjs", "simple_image"} :
             p \in SeqSet(PREVIEWER_PREFERENCE) =>
                 Index(PREVIEWER_PREFERENCE, "iiif") < Index(PREVIEWER_PREFERENCE, p)
        /\ SelectSeq(PREVIEWER_PREFERENCE, LAMBDA e : e # "iiif") = log[Len(log)].arg

\* C16: once create_app has initialised the extensions, 'zenodo_image' is
\* the first entry of PREVIEWER_PREFERENCE, whichever of ZenodoRDM and
\* IIIFPreviewerExt was initialised first, before and after update_previewers
\* assigns its own list.
C16_ZenodoImageFirst ==
    (script = "update_previewers" /\ pc \in {"app", "done", "aborted"}) =>
        /\ PREVIEWER_PREFERENCE # << >>
        /\ PREVIEWER_PREFERENCE[1] = "zenodo_image"

\* C17: in both copies of test_browser_ui, test_web_access reports a working
\* base URL (True, exit code 0) only for a base URL whose home page, record
\* page and IIIF manifest requests all returned 200, and returns False (exit
\* code 1) only after the last base URL of the list.
C17_WorkingMeansAll200 ==
    script \in BrowserUiScripts =>
        /\ exitCode = 0 =>
             /\ Len(log) = 3
             /\ \A i \in 1..3 : log[i].op = "requests.get" /\ log[i].ok
        /\ exitCode = 1 => fi = Len(WebUrlsToTry(script))

\* C18: test_simple_iipserver.run_tests requests the test image only when
\* the server check and the FastCGI check both succeeded, and returns 0 if and
\* only if those two succeeded, whatever the test image gave;
\* test_core_services.run_tests returns 0 if and only if the IIPServer and the
\* web server both answered.
C18_ExitReflectsServiceChecks ==
    script \in {"test_simple_iipserver", "test_core_services"} =>
        /\ Len(log) = 3 => script = "test_simple_iipserver" /\ log[1].ok /\ log[2].ok
        /\ pc = "done" =>
             /\ Len(log) >= 2
             /\ exitCode = 0 <=> (log[1].ok /\ log[2].ok)
             /\ exitCode \in {0, 1}
             /\ (script = "test_simple_iipserver" /\ log[1].ok /\ log[2].ok) => Len(log) = 3

\* test_simple_iipserver returned 0 although the test image was not
\* accessible
C18_Witness ==
    /\ script = "test_simple_iipserver"
    /\ pc = "done"
    /\ exitCode = 0
    /\ Len(log) = 3
    /\ ~log[3].ok

\* C14: for the same record identifier regenerate_pdf_ptif computes the
\* directory register_ptif.find_ptif_files looks in, that of the sharded
\* layout <first two characters>/<following characters>_/_/ : the directory
\* it makes for its output is the one find_ptif_files derives from the
\* identifier of the record.
C14_SameDirectory ==
    script = "regenerate_pdf_ptif" =>
        \A i \in 1..Len(log) :
            log[i].op = "os.makedirs" => log[i].arg = FindPtifDir(record.id)

\* C20: regenerate_pdf_ptif_files leaves a record unchanged on error: when
\* the last call made for a PTIF failed (vips exited non-zero, the output
\* file is missing, or the registration raised), the media_files entry of
\* that PTIF is what it was before the run.
C20_UnchangedOnError ==
    ( /\ script = "regenerate_pdf_ptif"
      /\ log # << >>
      /\ log[1].op = "media_files.delete"
      /\ ~log[Len(log)].ok ) =>
        /\ log[1].arg \in DOMAIN record.media
        /\ record.media[log[1].arg] = log[1].prior

\* C21: within batch_convert two distinct image files never get the same
\* target name private_<record_id>_<base>.ptif (nor the same intermediate
\* .ptif path), so no conversion overwrites the output of another: the
\* IIPServer holds one target file for every image docker cp has copied.
C21_TargetsUnique ==
    script = "batch_convert" =>
        /\ \A i, j \in 1..Len(image_files) :
             i # j => TargetFilename(PtifPath(image_files[i]))
                        # TargetFilename(PtifPath(image_files[j]))
        /\ \A i \in 1..Len(log) :
             (log[i].op = "copy_to_iipserver" /\ log[i].ok) =>
                 /\ TargetFilename(PtifPath(log[i].arg)) \in DOMAIN disk
                 /\ disk[TargetFilename(PtifPath(log[i].arg))] = log[i].arg

\* C22: in the manifest written by modify_manifest the canvas "@id" values
\* are pairwise distinct: no PTIF file of the image directory (the file of
\* the whole document or a page-<n> file) gets two canvases.
C22_CanvasIdsDistinct ==
    (script = "modify_manifest" /\ pc = "pdfs" /\ fi = Len(PdfFilenames(disk))) =>
        \A i, j \in 1..Len(canvases) : canvases[i] = canvases[j] => i = j

\* C23: run_all_tests of test_authenticated_manifest handles a missing
\* AUTH_TOKEN as an ordinary failed outcome: no exception is raised, and
\* once the script has ended it has exited normally after printing the
\* summary with both checks failed and the recommendation to provide a token.
C23_MissingTokenIsOrdinaryFailure ==
    (script = "test_authenticated_manifest" /\ AUTH_TOKEN = "") =>
        /\ raised = 0
        /\ pc # "aborted"
        /\ exitCode # -1 =>
             /\ exitCode = 0
             /\ \E i \in 1..Len(log) :
                  log[i] = Ev("print", <<"Manifest Access">>, FALSE)
             /\ \E i \in 1..Len(log) :
                  log[i] = Ev("print", <<"Image Access">>, FALSE)
             /\ \E i \in 1..Len(log) :
                  log[i] = Ev("print", <<"provide AUTH_TOKEN">>, TRUE)

=============================================================================
